---- MODULE Spec2Model ----
(***************************************************************************)
(* A model of process-terminal: the shared state of `Terminal`, the        *)
(* threads it spawns (capture, exit, input, redraw) and the threads of     *)
(* the caller that use its API.  One action per lock region of the code.   *)
(*                                                                         *)
(* Conventions.  Option<T> is a sequence of length at most one: <<>> is    *)
(* None and <<v>> is Some(v).  A String is the sequence of its characters. *)
(* A Shared<T> cell of a process is named by the position of the process   *)
(* in the registry, which never changes once the process is pushed.        *)
(***************************************************************************)
EXTENDS Integers, Sequences, FiniteSets, TLC

VARIABLES
    processes,      \* Terminal.processes: Vec<Process>, cells inlined
    main_messages,  \* Terminal.main_messages: Vec<String>
    base_status,    \* BaseStatus: main_scroll and focus
    actions,        \* KeyBoardActions.actions: Vec<Action>
    exit_callback,  \* Terminal.exit_callback: Option<callback>
    children,       \* the child process behind each registry entry
    tasks,          \* the capture and exit threads of each registry entry
    callers,        \* the caller's threads and where each is in an API call
    input,          \* thread_input
    draw,           \* thread_draw
    sys,            \* the OS process: terminal restored, callbacks run, exited
    poisoned        \* registry positions whose search_message lock is poisoned

vars == <<processes, main_messages, base_status, actions, exit_callback,
          children, tasks, callers, input, draw, sys, poisoned>>

----------------------------------------------------------------------------
\* Bounds of the model.

\* add_process calls made in one run
MaxProcs == 3
\* add_process calls made in one run that registers up to the focus limit
MaxFocusProcs == 5
\* add_process calls made in one run whose children print
MaxFewProcs == 1

\* Processes registered where two of them are bound to different keys.
MaxKeyProcs == 2

\* Processes registered where the panes of the frame are looked at.
MaxPaneProcs == 2

\* Processes registered where the capture of their lines is looked at.
MaxCaptureProcs == 2
\* add_message calls made in one run
MaxMessages == 2
\* with_exit_callback calls made in one run
MaxRegistrations == 2
\* input events read in one run
MaxEvents == 3
\* frames drawn in one run
MaxDraws == 3

\* API calls the caller's second thread makes in one run
MaxWorkerCalls == 1

\* The caller's threads.
Callers == {"main", "worker"}

----------------------------------------------------------------------------
\* Option and String helpers.

None == <<>>

Some(v) == <<v>>

IsSome(o) == Len(o) = 1

Unwrap(o) == o[1]

\* A push that puts the element in front of the others.
Vec_push_front(vec, element) == <<element>> \o vec

\* Vec::push: the element becomes the last one.
Vec_push(vec, element) == Append(vec, element)

\* The test of the head of the line only.
ContainsAtStart(line, sub) ==
    Len(sub) <= Len(line) /\ SubSeq(line, 1, Len(sub)) = sub

\* str::contains: some window of line equals sub (the empty pattern matches).
Contains(line, sub) ==
    \E i \in 1..(Len(line) + 1) :
        /\ i + Len(sub) - 1 <= Len(line)
        /\ SubSeq(line, i, i + Len(sub) - 1) = sub

DigitChars == <<"0", "1", "2", "3", "4", "5", "6", "7", "8", "9">>

\* usize::to_string: the decimal digits, most significant first.
RECURSIVE to_string(_)
to_string(n) ==
    IF n < 10 THEN <<DigitChars[n + 1]>>
    ELSE to_string(n \div 10) \o <<DigitChars[(n % 10) + 1]>>

Ok(v) == [ok |-> TRUE, v |-> v]

Err(e) == [ok |-> FALSE, e |-> e]

\* to_char: the index as one character, or an error when it has more digits.
to_char_wide(index) ==
    LET str_index == to_string(index)
    IN  Ok(str_index[1])

to_char(index) ==
    LET str_index == to_string(index)
    IN  IF Len(str_index) = 1 THEN Ok(str_index[1])
        ELSE Err("Can't add more then 9 processes.")

----------------------------------------------------------------------------
\* Events and bindings.

into_event(code, modifier) == [code |-> code, modifiers |-> modifier]

into_event_no_modifier(code) == into_event(code, "NONE")

Action_new(event, data) == [event |-> event, data |-> data]

\* The cells a binding can hold: the main log and its scroll status, or a
\* buffer and a scroll status of the process at registry position p.
MainScrollCell == [cell |-> "main_scroll"]

MainMessagesCell == [cell |-> "main_messages"]

ProcCell(field, p) == [cell |-> field, p |-> p]

ActionScroll(status, messages) == [status |-> status, messages |-> messages]

\* The built-in bindings with a release of the main log's pin on shift and
\* Down.
BuiltinActionsWithRelease ==
    LET main_action_scroll == ActionScroll(MainScrollCell, MainMessagesCell)
    IN  << Action_new(into_event("c", "CONTROL"), [ty |-> "Close"]),
           Action_new(into_event_no_modifier("Up"),
                      [ty |-> "ScrollUp", scroll |-> main_action_scroll]),
           Action_new(into_event_no_modifier("Down"),
                      [ty |-> "ScrollDown", scroll |-> main_action_scroll]),
           Action_new(into_event_no_modifier("Left"),
                      [ty |-> "ScrollLeft", scroll |-> main_action_scroll]),
           Action_new(into_event_no_modifier("Right"),
                      [ty |-> "ScrollRight", scroll |-> main_action_scroll]),
           Action_new(into_event_no_modifier("0"), [ty |-> "Focus", index |-> 0]),
           Action_new(into_event_no_modifier("Esc"), [ty |-> "RemoveFocus"]),
           Action_new(into_event("Down", "SHIFT"),
                      [ty |-> "StopScrolling", status |-> MainScrollCell]) >>

\* KeyBoardActions::new: the built-in bindings, in the order of the vec!.
BuiltinActions ==
    LET main_action_scroll == ActionScroll(MainScrollCell, MainMessagesCell)
    IN  << Action_new(into_event("c", "CONTROL"), [ty |-> "Close"]),
           Action_new(into_event_no_modifier("Up"),
                      [ty |-> "ScrollUp", scroll |-> main_action_scroll]),
           Action_new(into_event_no_modifier("Down"),
                      [ty |-> "ScrollDown", scroll |-> main_action_scroll]),
           Action_new(into_event_no_modifier("Left"),
                      [ty |-> "ScrollLeft", scroll |-> main_action_scroll]),
           Action_new(into_event_no_modifier("Right"),
                      [ty |-> "ScrollRight", scroll |-> main_action_scroll]),
           Action_new(into_event_no_modifier("0"), [ty |-> "Focus", index |-> 0]),
           Action_new(into_event_no_modifier("Esc"), [ty |-> "RemoveFocus"]) >>

\* push_focus that pushes every binding or none.
push_focus_atomic(acts, indexes) ==
    IF \E i \in 1..Len(indexes) : ~to_char(indexes[i]).ok
    THEN [actions |-> acts, result |-> Err("Can't add more then 9 processes.")]
    ELSE [actions |-> acts \o
                        [i \in 1..Len(indexes) |->
                            Action_new(into_event_no_modifier(to_char(indexes[i]).v),
                                       [ty |-> "Focus", index |-> indexes[i]])],
          result |-> Ok("()")]

\* KeyBoardActions::push_focus: one Focus binding per index, stopping at the
\* first index to_char rejects (the `?`); the bindings pushed before stay.
RECURSIVE push_focus(_, _)
push_focus(acts, indexes) ==
    IF indexes = <<>> THEN [actions |-> acts, result |-> Ok("()")]
    ELSE LET char == to_char(Head(indexes))
         IN  IF ~char.ok THEN [actions |-> acts, result |-> char]
             ELSE push_focus(
                      Append(acts, Action_new(into_event_no_modifier(char.v),
                                              [ty |-> "Focus", index |-> Head(indexes)])),
                      Tail(indexes))

----------------------------------------------------------------------------
\* The registry.

ScrollStatusDefault == [x |-> 0, y |-> None]

Disable == <<>>

Enable(up, down) == <<up, down>>

\* Process::new: every cell empty.
Process_new(name, settings) ==
    [ name              |-> name,
      settings          |-> settings,
      out_messages      |-> <<>>,
      err_messages      |-> <<>>,
      scroll_status_out |-> ScrollStatusDefault,
      scroll_status_err |-> ScrollStatusDefault,
      search_message    |-> None ]

\* The match inside add_process's fold: the focusable streams of a setting.
StreamCountAllAsOne(messages) ==
    CASE messages \in {"Output", "Error", "All"} -> 1
      [] messages = "None" -> 0

StreamCount(messages) ==
    CASE messages \in {"Output", "Error"} -> 1
      [] messages = "All" -> 2
      [] messages = "None" -> 0

\* processes.iter().fold(0, |buff, process| buff + count)
RECURSIVE PreCount(_)
PreCount(procs) ==
    IF procs = <<>> THEN 0
    ELSE PreCount(SubSeq(procs, 1, Len(procs) - 1))
             + StreamCount(procs[Len(procs)].settings.messages)

\* A thread of the caller outside every API call.
\* The threads of the lock protocol: thread_input, thread_draw, the three
\* threads of the first process and the caller's first thread.
LockThreads == {"input", "draw", "out", "err", "exit", "main"}

IdleCaller == [pc |-> "idle", calls |-> 0, op |-> "none", result |-> Ok("()")]

\* The threads add_process has not spawned yet.
NoTasks ==
    [ out  |-> [pc |-> "none"],
      err  |-> [pc |-> "none"],
      exit |-> "none" ]

\* DrawCache::default_detach: the snapshot of an empty terminal.
DrawCache_default_detach ==
    [ main_messages |-> <<>>,
      main_scroll   |-> [main_scroll |-> ScrollStatusDefault, focus |-> None],
      processes     |-> <<>> ]

----------------------------------------------------------------------------
\* Init: the state Terminal::new leaves, with its two threads started.

Init ==
    /\ processes = <<>>
    /\ main_messages = <<>>
    /\ base_status = [main_scroll |-> ScrollStatusDefault, focus |-> None]
    /\ actions = BuiltinActions
    /\ exit_callback = None
    /\ children = <<>>
    /\ tasks = <<>>
    /\ callers = [t \in Callers |-> IdleCaller]
    /\ input = [pc |-> "read", nread |-> 0, event |-> None, events |-> <<>>,
                n_actions |-> 0, applied |-> <<>>]
    /\ draw = [pc |-> "main_messages", read |-> DrawCache_default_detach,
               cache |-> DrawCache_default_detach, i |-> 0, field |-> 0,
               draws |-> 0, last |-> "none", frame |-> <<>>]
    /\ sys = [restored |-> FALSE, invoked |-> <<>>, registered |-> <<>>,
              armed |-> FALSE, exited |-> FALSE, code |-> None,
              todo |-> [t \in LockThreads |-> <<>>],
              held |-> [t \in LockThreads |-> {}],
              waiting |-> {}]
    /\ poisoned = {}

\* std::process::exit ends every thread.
Running == ~sys.exited

\* inputs is read-locked by thread_input for the whole of apply_event.
InputsFree == input.pc = "read"

\* processes is read-locked by thread_draw while it detaches the processes.
RegistryFree == draw.pc # "detach_processes"

\* The cells Process::detach reads, in the order it reads them.
DetachFields ==
    <<"out_messages", "err_messages", "scroll_status_out", "scroll_status_err">>

\* The read guards thread_draw holds between its steps.  The guards of
\* DrawCache::detach, BaseStatus::detach and Process::detach are temporaries
\* of one struct expression each: the main log stays read-locked from its
\* clone to the end of the snapshot, the scroll status of the main log until
\* the focus is cloned, and every cell of a process that is already cloned
\* until the last cell of that process is.
DrawHolds(cell) ==
    IF cell = MainMessagesCell
    THEN draw.pc \in {"main_scroll", "focus", "processes", "detach_processes"}
    ELSE IF cell = MainScrollCell
    THEN draw.pc = "focus"
    ELSE /\ draw.pc = "detach_processes"
         /\ draw.i = cell.p
         /\ \E k \in 1..(draw.field - 1) : DetachFields[k] = cell.cell

\* The scroll status an effect writes is not read-locked by thread_draw.
StatusFree(data) ==
    CASE data.ty \in {"ScrollUp", "ScrollDown", "ScrollLeft", "ScrollRight"} ->
            ~DrawHolds(data.scroll.status)
      [] data.ty = "StopScrolling" -> ~DrawHolds(data.status)
      [] OTHER -> TRUE

----------------------------------------------------------------------------
\* Terminal::add_process.

\* thread_output as spawned: it owns the pipe.
OutTask(stdout) == [pc |-> "read", stdout |-> stdout]

ErrTask(stderr) == [pc |-> "read", stderr |-> stderr]

\* What a call leaves in its thread once it has returned.
Returned(c, op, result) ==
    [pc |-> "idle", calls |-> c.calls, op |-> op, result |-> result]

\* A thread of the caller that may begin an API call: the second thread
\* within its budget of calls, the first one always.
CanCall(t) ==
    /\ callers[t].pc = "idle"
    /\ t = "worker" => callers[t].calls < MaxWorkerCalls

\* The calls a thread has made once it begins one more (counted for the
\* second thread only).
NextCalls(t) == IF t = "worker" THEN callers[t].calls + 1 ELSE 0

\* The test of the pipes that ignores the setting.
MissingPipeAny(name, messages, child) ==
    IF ~IsSome(child.stdout)
    THEN Some(<<"Failed to get stdout on process: ", name>>)
    ELSE IF ~IsSome(child.stderr)
    THEN Some(<<"Failed to get stderr on process: ", name>>)
    ELSE None

\* Lines 117-177: the pipe the setting asks for that the child lacks, if any.
MissingPipe(name, messages, child) ==
    IF messages \in {"Output", "All"} /\ ~IsSome(child.stdout)
    THEN Some(<<"Failed to get stdout on process: ", name>>)
    ELSE IF messages \in {"Error", "All"} /\ ~IsSome(child.stderr)
    THEN Some(<<"Failed to get stderr on process: ", name>>)
    ELSE None

\* Lines 117-177: the value of the match, the focus indexes of the streams.
FocusIndexes(messages, pre_count) ==
    CASE messages \in {"Output", "Error"} -> <<pre_count + 1>>
      [] messages = "All" -> <<pre_count + 1, pre_count + 2>>
      [] messages = "None" -> <<>>

\* Lines 100-182.  The write region of the registry counts the streams
\* registered so far and pushes the new process; the code after it, which
\* touches nothing another thread can see, is part of the same step: it takes
\* the pipes the setting asks for (returning the error when one is missing),
\* spawns the capture threads, names the focus indexes and spawns thread_exit.
AddProcessPush(t, inputs, max) ==
    /\ Running
    /\ CanCall(t)
    /\ Len(processes) < max
    /\ RegistryFree
    /\ \E inp \in inputs :
        LET p == Len(processes) + 1
            pre_count == PreCount(processes)
            messages == inp.settings.messages
            child == [stdout |-> inp.stdout, stderr |-> inp.stderr]
            failed == MissingPipe(inp.name, messages, child)
        IN  /\ processes' = Append(processes, Process_new(inp.name, inp.settings))
            /\ children' = Append(children, [ exited |-> FALSE,
                                               stdout |-> IsSome(inp.stdout),
                                               stderr |-> IsSome(inp.stderr) ])
            /\ IF IsSome(failed)
               THEN /\ tasks' = Append(tasks, NoTasks)
                    /\ callers' = [callers EXCEPT ![t] =
                                      Returned([calls |-> NextCalls(t)],
                                               "add_process", Err(Unwrap(failed)))]
               ELSE /\ tasks' = Append(tasks,
                            [ out  |-> IF messages \in {"Output", "All"}
                                       THEN OutTask(Unwrap(child.stdout))
                                       ELSE [pc |-> "none"],
                              err  |-> IF messages \in {"Error", "All"}
                                       THEN ErrTask(Unwrap(child.stderr))
                                       ELSE [pc |-> "none"],
                              exit |-> "wait" ])
                    /\ callers' = [callers EXCEPT ![t] =
                                      [ pc            |-> IF inp.settings.scroll = Disable
                                                          THEN "ap_focus" ELSE "ap_scroll",
                                        calls         |-> NextCalls(t),
                                        settings      |-> inp.settings,
                                        process       |-> p,
                                        k             |-> 1,
                                        focus_indexes |-> FocusIndexes(messages, pre_count) ]]
    /\ UNCHANGED <<main_messages, base_status, actions, exit_callback, input,
                   draw, sys, poisoned>>

\* The bindings with both releases on the output status.
ScrollBindingsStopOut(p, k, up_right, down_left) ==
    LET action_scroll ==
            IF k = 1
            THEN ActionScroll(ProcCell("scroll_status_out", p), ProcCell("out_messages", p))
            ELSE ActionScroll(ProcCell("scroll_status_err", p), ProcCell("err_messages", p))
    IN  << Action_new(into_event_no_modifier(up_right),
                      [ty |-> "ScrollUp", scroll |-> action_scroll]),
           Action_new(into_event_no_modifier(down_left),
                      [ty |-> "ScrollDown", scroll |-> action_scroll]),
           Action_new(into_event(down_left, "SHIFT"),
                      [ty |-> "StopScrolling", status |-> ProcCell("scroll_status_out", p)]),
           Action_new(into_event(down_left, "SHIFT"),
                      [ty |-> "StopScrolling", status |-> ProcCell("scroll_status_out", p)]) >>

\* Lines 189-222: one iteration of the loop over the two (scroll status,
\* buffer) pairs: a write region of inputs that pushes four bindings.
ScrollBindings(p, k, up_right, down_left) ==
    LET action_scroll ==
            IF k = 1
            THEN ActionScroll(ProcCell("scroll_status_out", p), ProcCell("out_messages", p))
            ELSE ActionScroll(ProcCell("scroll_status_err", p), ProcCell("err_messages", p))
    IN  << Action_new(into_event_no_modifier(up_right),
                      [ty |-> "ScrollUp", scroll |-> action_scroll]),
           Action_new(into_event_no_modifier(down_left),
                      [ty |-> "ScrollDown", scroll |-> action_scroll]),
           Action_new(into_event(down_left, "SHIFT"),
                      [ty |-> "StopScrolling", status |-> ProcCell("scroll_status_out", p)]),
           Action_new(into_event(down_left, "SHIFT"),
                      [ty |-> "StopScrolling", status |-> ProcCell("scroll_status_err", p)]) >>

AddProcessScroll(t) ==
    /\ Running
    /\ callers[t].pc = "ap_scroll"
    /\ InputsFree
    /\ LET c == callers[t]
       IN  /\ actions' = actions \o ScrollBindings(c.process, c.k,
                                                   c.settings.scroll[1], c.settings.scroll[2])
           /\ callers' = [callers EXCEPT ![t] =
                             IF c.k = 1 THEN [c EXCEPT !.k = 2]
                             ELSE [c EXCEPT !.pc = "ap_focus"]]
    /\ UNCHANGED <<processes, main_messages, base_status, exit_callback, children,
                   tasks, input, draw, sys, poisoned>>

\* Lines 225-230: push the focus bindings (a write region of inputs, entered
\* only when there are indexes) and return.
AddProcessFocus(t) ==
    /\ Running
    /\ callers[t].pc = "ap_focus"
    /\ LET c == callers[t]
           pushed == push_focus(actions, c.focus_indexes)
       IN  IF c.focus_indexes = <<>>
           THEN /\ UNCHANGED actions
                /\ callers' = [callers EXCEPT ![t] = Returned(c, "add_process", Ok("()"))]
           ELSE /\ InputsFree
                /\ actions' = pushed.actions
                /\ callers' = [callers EXCEPT ![t] =
                                  Returned(c, "add_process", pushed.result)]
    /\ UNCHANGED <<processes, main_messages, base_status, exit_callback, children,
                   tasks, input, draw, sys, poisoned>>

AddProcess(t, inputs, max) ==
    \/ AddProcessPush(t, inputs, max)
    \/ AddProcessScroll(t)
    \/ AddProcessFocus(t)

----------------------------------------------------------------------------
\* The capture threads and thread_exit.

Esc == "ESC"

\* The byte classes of the CSI pattern \x1b\[([\x30-\x3f]*[\x20-\x2f]*[\x40-\x7e]),
\* less the double quote, the backslash and the backquote, which no line of
\* the model holds.
ParamBytes == {"0", "1", "2", "3", "4", "5", "6", "7", "8", "9",
               ":", ";", "<", "=", ">", "?"}

IntermediateBytes == {" ", "!", "#", "$", "%", "&", "'", "(", ")",
                      "*", "+", ",", "-", ".", "/"}

FinalBytes == {"@", "A", "B", "C", "D", "E", "F", "G", "H", "I", "J", "K", "L",
               "M", "N", "O", "P", "Q", "R", "S", "T", "U", "V", "W", "X", "Y",
               "Z", "[", "]", "^", "_", "a", "b", "c", "d", "e", "f",
               "g", "h", "i", "j", "k", "l", "m", "n", "o", "p", "q", "r", "s",
               "t", "u", "v", "w", "x", "y", "z", "{", "|", "}", "~"}

\* The first position from i on whose character is outside class.
RECURSIVE SkipClass(_, _, _)
SkipClass(line, i, class) ==
    IF i <= Len(line) /\ line[i] \in class THEN SkipClass(line, i + 1, class)
    ELSE i

\* The last position of the CSI sequence that starts at i, or 0.  The three
\* classes are disjoint, so the greedy match is the only one.
CsiEnd(line, i) ==
    IF i + 1 <= Len(line) /\ line[i] = Esc /\ line[i + 1] = "["
    THEN LET k == SkipClass(line, SkipClass(line, i + 2, ParamBytes), IntermediateBytes)
         IN  IF k <= Len(line) /\ line[k] \in FinalBytes THEN k ELSE 0
    ELSE 0

\* Regex::clear: replace_all of the CSI pattern by the empty string.
RECURSIVE ClearFrom(_, _)
ClearFrom(line, i) ==
    IF i > Len(line) THEN <<>>
    ELSE IF CsiEnd(line, i) > 0 THEN ClearFrom(line, CsiEnd(line, i) + 1)
    ELSE <<line[i]>> \o ClearFrom(line, i + 1)

Regex_clear(line) == ClearFrom(line, 1)

\* The line as the capture thread stores it.
Captured(p, line) ==
    IF processes[p].settings.clear_regex THEN Regex_clear(line) ELSE line

\* History kept for the properties: the lines the capture thread of p has
\* compared with the pending request since each waiting call installed its own.
Examined(p, line) ==
    [t \in Callers |->
        IF callers[t].pc = "bs_poll" /\ callers[t].process = p
        THEN [callers[t] EXCEPT !.seen = Append(@, line)]
        ELSE callers[t]]

\* thread_output, lines 312-322: read the next line of the pipe and push it
\* onto the output buffer.  The pipe holds the lines the child writes.
OutRead(p) ==
    /\ Running
    /\ p \in 1..Len(tasks)
    /\ tasks[p].out.pc = "read"
    /\ tasks[p].out.stdout # <<>>
    /\ ~DrawHolds(ProcCell("out_messages", p))
    /\ LET line == Captured(p, Head(tasks[p].out.stdout))
       IN  /\ processes' = [processes EXCEPT ![p].out_messages = Vec_push(@, line)]
           /\ tasks' = [tasks EXCEPT ![p].out =
                           [pc |-> "search", stdout |-> Tail(@.stdout), line |-> line]]
    /\ UNCHANGED <<main_messages, base_status, actions, exit_callback, children,
                   callers, input, draw, sys, poisoned>>

\* The search region without the test of the substring.
SearchRegionAnyLine(slot, line) ==
    IF IsSome(slot)
    THEN Some([Unwrap(slot) EXCEPT !.message = Some(line)])
    ELSE slot

\* thread_output, lines 324-330: the value the write region leaves in
\* search_message: a request, resolved or not, takes every line that
\* contains its substring.
SearchRegion(slot, line) ==
    IF IsSome(slot) /\ Contains(line, Unwrap(slot).submsg)
    THEN Some([Unwrap(slot) EXCEPT !.message = Some(line)])
    ELSE slot

\* thread_output, lines 324-330: compare the line just pushed with the
\* pending request.  A poisoned lock makes the thread panic.
OutSearch(p) ==
    /\ Running
    /\ p \in 1..Len(tasks)
    /\ tasks[p].out.pc = "search"
    /\ IF p \in poisoned
       THEN /\ tasks' = [tasks EXCEPT ![p].out = [pc |-> "panicked"]]
            /\ UNCHANGED <<processes, callers>>
       ELSE /\ processes' = [processes EXCEPT ![p].search_message =
                                SearchRegion(@, tasks[p].out.line)]
            /\ tasks' = [tasks EXCEPT ![p].out = [pc |-> "read", stdout |-> @.stdout]]
            /\ callers' = Examined(p, tasks[p].out.line)
    /\ UNCHANGED <<main_messages, base_status, actions, exit_callback, children,
                   input, draw, sys, poisoned>>

\* thread_error pushing its line onto the output buffer.
ErrReadIntoOut(p) ==
    /\ Running
    /\ p \in 1..Len(tasks)
    /\ tasks[p].err.pc = "read"
    /\ tasks[p].err.stderr # <<>>
    /\ ~DrawHolds(ProcCell("out_messages", p))
    /\ LET line == Captured(p, Head(tasks[p].err.stderr))
       IN  /\ processes' = [processes EXCEPT ![p].out_messages = Vec_push(@, line)]
           /\ tasks' = [tasks EXCEPT ![p].err.stderr = Tail(@)]
    /\ UNCHANGED <<main_messages, base_status, actions, exit_callback, children,
                   callers, input, draw, sys, poisoned>>

\* thread_error, lines 341-352: read the next line and push it onto the error
\* buffer; the request is not looked at.
ErrRead(p) ==
    /\ Running
    /\ p \in 1..Len(tasks)
    /\ tasks[p].err.pc = "read"
    /\ tasks[p].err.stderr # <<>>
    /\ ~DrawHolds(ProcCell("err_messages", p))
    /\ LET line == Captured(p, Head(tasks[p].err.stderr))
       IN  /\ processes' = [processes EXCEPT ![p].err_messages = Vec_push(@, line)]
           /\ tasks' = [tasks EXCEPT ![p].err.stderr = Tail(@)]
    /\ UNCHANGED <<main_messages, base_status, actions, exit_callback, children,
                   callers, input, draw, sys, poisoned>>

\* The child terminates (the lines it wrote stay readable in its pipes).
ChildExit(p) ==
    /\ Running
    /\ p \in 1..Len(children)
    /\ ~children[p].exited
    /\ children' = [children EXCEPT ![p].exited = TRUE]
    /\ UNCHANGED <<processes, main_messages, base_status, actions, exit_callback,
                   tasks, callers, input, draw, sys, poisoned>>

\* A notice that leaves the name out.
ExitNoticeUnnamed(process_name) ==
    <<"Process '", "", "' exited: ", "ok: exit status: 0.">>

\* The line thread_exit formats.
ExitNotice(process_name) ==
    <<"Process '", process_name, "' exited: ", "ok: exit status: 0.">>

\* thread_exit: child.wait() has returned; push the notice onto the main log.
ThreadExit(p) ==
    /\ Running
    /\ p \in 1..Len(tasks)
    /\ tasks[p].exit = "wait"
    /\ children[p].exited
    /\ ~DrawHolds(MainMessagesCell)
    /\ main_messages' = Vec_push(main_messages, ExitNotice(processes[p].name))
    /\ tasks' = [tasks EXCEPT ![p].exit = "done"]
    /\ UNCHANGED <<processes, base_status, actions, exit_callback, children,
                   callers, input, draw, sys, poisoned>>

Capture(p) == OutRead(p) \/ OutSearch(p) \/ ErrRead(p)

----------------------------------------------------------------------------
\* Terminal::block_search_message.

\* The names the registry holds.
RegisteredNames == {processes[i].name : i \in 1..Len(processes)}

\* find(|p| p.name == process): 0 stands for no position.
FindProcessOrFirst(name) ==
    IF \E i \in 1..Len(processes) : processes[i].name = name
    THEN CHOOSE i \in 1..Len(processes) :
             /\ processes[i].name = name
             /\ \A j \in 1..(i - 1) : processes[j].name # name
    ELSE IF processes # <<>> THEN 1 ELSE 0

\* find(|p| p.name == process): the first position of the registry that holds
\* the name, 0 for None.
FindProcess(name) ==
    IF \E i \in 1..Len(processes) : processes[i].name = name
    THEN CHOOSE i \in 1..Len(processes) :
             /\ processes[i].name = name
             /\ \A j \in 1..(i - 1) : processes[j].name # name
    ELSE 0

\* Some thread other than t is inside block_search on process p.
Searching(t, p) ==
    \E u \in Callers \ {t} :
        callers[u].pc \in {"bs_install", "bs_poll"} /\ callers[u].process = p

\* Line 247: the call is entered and its arguments become locals.
BlockSearchCall(t, names, subs) ==
    /\ Running
    /\ CanCall(t)
    /\ \E name \in names, submsg \in subs :
          callers' = [callers EXCEPT ![t] =
                         [ pc |-> "bs_find", calls |-> NextCalls(t),
                           name |-> name, submsg |-> submsg ]]
    /\ UNCHANGED <<processes, main_messages, base_status, actions, exit_callback,
                   children, tasks, input, draw, sys, poisoned>>

\* Lines 249-255: look the name up in a clone of the registry; return the
\* error when it is not there.  When the caller serializes its calls per
\* process, the call goes on only once no other call is waiting on the process.
BlockSearchFind(t, serialized) ==
    /\ Running
    /\ callers[t].pc = "bs_find"
    /\ LET c == callers[t]
           p == FindProcess(c.name)
       IN  IF p = 0
           THEN callers' = [callers EXCEPT ![t] =
                               Returned(c, "block_search", Err("Process not found."))]
           ELSE /\ serialized => ~Searching(t, p)
                /\ callers' = [callers EXCEPT ![t] =
                                  [ pc |-> "bs_install", calls |-> c.calls,
                                    process |-> p, submsg |-> c.submsg ]]
    /\ UNCHANGED <<processes, main_messages, base_status, actions, exit_callback,
                   children, tasks, input, draw, sys, poisoned>>

SearchMessage_new(submsg) == [submsg |-> submsg, message |-> None]

\* The install that leaves a request already in the slot where it is.
BlockSearchInstallIfEmpty(t) ==
    /\ Running
    /\ callers[t].pc = "bs_install"
    /\ LET c == callers[t]
       IN  /\ processes' = [processes EXCEPT ![c.process].search_message =
                                IF IsSome(@) THEN @ ELSE Some(SearchMessage_new(c.submsg))]
           /\ callers' = [callers EXCEPT ![t] =
                             [ pc |-> "bs_poll", calls |-> c.calls,
                               process |-> c.process, submsg |-> c.submsg,
                               seen |-> <<>> ]]
    /\ UNCHANGED <<main_messages, base_status, actions, exit_callback, children,
                   tasks, input, draw, sys, poisoned>>

\* Lines 257-259: install a fresh request, whatever the slot holds.
BlockSearchInstall(t) ==
    /\ Running
    /\ callers[t].pc = "bs_install"
    /\ LET c == callers[t]
       IN  IF c.process \in poisoned
           THEN /\ callers' = [callers EXCEPT ![t] = [pc |-> "panicked", calls |-> c.calls]]
                /\ UNCHANGED processes
           ELSE /\ processes' = [processes EXCEPT ![c.process].search_message =
                                    Some(SearchMessage_new(c.submsg))]
                /\ callers' = [callers EXCEPT ![t] =
                                  [ pc |-> "bs_poll", calls |-> c.calls,
                                    process |-> c.process, submsg |-> c.submsg,
                                    seen |-> <<>> ]]
    /\ UNCHANGED <<main_messages, base_status, actions, exit_callback, children,
                   tasks, input, draw, sys, poisoned>>

\* The round of the loop that empties the slot whether it is resolved or not.
BlockSearchPollTake(t) ==
    /\ Running
    /\ callers[t].pc = "bs_poll"
    /\ LET c == callers[t]
           slot == processes[c.process].search_message
       IN  IF c.process \in poisoned \/ ~IsSome(slot)
           THEN /\ callers' = [callers EXCEPT ![t] = [pc |-> "panicked", calls |-> c.calls]]
                /\ poisoned' = poisoned \cup {c.process}
                /\ UNCHANGED processes
           ELSE /\ processes' = [processes EXCEPT ![c.process].search_message = None]
                /\ callers' = IF IsSome(Unwrap(slot).message)
                              THEN [callers EXCEPT ![t] =
                                       Returned(c, "block_search",
                                                Ok(Unwrap(Unwrap(slot).message)))]
                              ELSE callers
                /\ UNCHANGED poisoned
    /\ UNCHANGED <<main_messages, base_status, actions, exit_callback, children,
                   tasks, input, draw, sys>>

\* Lines 261-275: one round of the loop: take the resolved line and empty the
\* slot, or sleep and come back.  unwrap() of an empty slot panics inside the
\* write region, which poisons the lock.
BlockSearchPoll(t) ==
    /\ Running
    /\ callers[t].pc = "bs_poll"
    /\ LET c == callers[t]
           slot == processes[c.process].search_message
       IN  IF c.process \in poisoned \/ ~IsSome(slot)
           THEN /\ callers' = [callers EXCEPT ![t] = [pc |-> "panicked", calls |-> c.calls]]
                /\ poisoned' = poisoned \cup {c.process}
                /\ UNCHANGED processes
           ELSE IF IsSome(Unwrap(slot).message)
           THEN /\ processes' = [processes EXCEPT ![c.process].search_message = None]
                /\ callers' = [callers EXCEPT ![t] =
                                  Returned(c, "block_search",
                                           Ok(Unwrap(Unwrap(slot).message)))]
                /\ UNCHANGED poisoned
           ELSE UNCHANGED <<processes, callers, poisoned>>
    /\ UNCHANGED <<main_messages, base_status, actions, exit_callback, children,
                   tasks, input, draw, sys>>

BlockSearch(t, names, subs, serialized) ==
    \/ BlockSearchCall(t, names, subs)
    \/ BlockSearchFind(t, serialized)
    \/ BlockSearchInstall(t)
    \/ BlockSearchPoll(t)

----------------------------------------------------------------------------
\* Terminal::add_message, Terminal::with_exit_callback and Terminal::kill.

\* The lines of the main log that add_message has pushed.
Injected ==
    Cardinality({i \in 1..Len(main_messages) : main_messages[i][1] # "Process '"})

\* Lines 237-239: push the message onto the main log.
AddMessage(t, messages) ==
    /\ Running
    /\ CanCall(t)
    /\ Injected < MaxMessages
    /\ ~DrawHolds(MainMessagesCell)
    /\ \E message \in messages :
          main_messages' = Vec_push(main_messages, message)
    /\ callers' = [callers EXCEPT ![t] =
                      Returned([calls |-> NextCalls(t)], "add_message", Ok("()"))]
    /\ UNCHANGED <<processes, base_status, actions, exit_callback, children, tasks,
                   input, draw, sys, poisoned>>

\* The slot as a registration that keeps an earlier callback would leave it.
StoreCallbackIfEmpty(slot, closure) == IF IsSome(slot) THEN slot ELSE Some(closure)

\* Line 280: *terminal = Some(Box::new(closure)).
StoreCallback(slot, closure) == Some(closure)

\* Lines 279-281: write the closure into the slot.  sys.registered and
\* sys.armed are history kept for the properties: the closures in the order
\* they were registered, and whether one was registered before any thread
\* began to terminate the program.
WithExitCallback(t, closures) ==
    /\ Running
    /\ CanCall(t)
    /\ Len(sys.registered) < MaxRegistrations
    /\ \E closure \in closures :
          /\ exit_callback' = StoreCallback(exit_callback, closure)
          /\ sys' = [sys EXCEPT !.registered = Append(@, closure),
                                !.armed = @ \/ ~sys.restored]
    /\ callers' = [callers EXCEPT ![t] =
                      Returned([calls |-> NextCalls(t)], "with_exit_callback", Ok("()"))]
    /\ UNCHANGED <<processes, main_messages, base_status, actions, children, tasks,
                   input, draw, poisoned>>

\* `if let Some(callback) = exit_callback.read_access().as_ref() { callback() }`:
\* the callbacks run so far, after this read region.
Invoke(slot, invoked) ==
    IF IsSome(slot) THEN Append(invoked, Unwrap(slot)) ELSE invoked

\* end_terminal going to the callback with the terminal left as it is.
KillSkipRestore(t) ==
    /\ Running
    /\ CanCall(t)
    /\ sys' = sys
    /\ callers' = [callers EXCEPT ![t] = [pc |-> "kill_callback", calls |-> NextCalls(t)]]
    /\ UNCHANGED <<processes, main_messages, base_status, actions, exit_callback,
                   children, tasks, input, draw, poisoned>>

\* Line 285: ratatui::restore().
KillRestore(t) ==
    /\ Running
    /\ CanCall(t)
    /\ sys' = [sys EXCEPT !.restored = TRUE]
    /\ callers' = [callers EXCEPT ![t] = [pc |-> "kill_callback", calls |-> NextCalls(t)]]
    /\ UNCHANGED <<processes, main_messages, base_status, actions, exit_callback,
                   children, tasks, input, draw, poisoned>>

\* Lines 286-288: run the callback, if one is registered.
KillCallback(t) ==
    /\ Running
    /\ callers[t].pc = "kill_callback"
    /\ sys' = [sys EXCEPT !.invoked = Invoke(exit_callback, @)]
    /\ callers' = [callers EXCEPT ![t].pc = "kill_exit"]
    /\ UNCHANGED <<processes, main_messages, base_status, actions, exit_callback,
                   children, tasks, input, draw, poisoned>>

\* Line 290: std::process::exit(0).
KillExit(t) ==
    /\ Running
    /\ callers[t].pc = "kill_exit"
    /\ sys' = [sys EXCEPT !.exited = TRUE, !.code = Some(0)]
    /\ UNCHANGED <<processes, main_messages, base_status, actions, exit_callback,
                   children, tasks, callers, input, draw, poisoned>>

Kill(t) == KillRestore(t) \/ KillCallback(t) \/ KillExit(t)

----------------------------------------------------------------------------
\* thread_input and KeyBoardActions::apply_event.

\* The positions of the bindings from position i on, the first match only.
RECURSIVE MatchingFirst(_, _, _)
MatchingFirst(acts, event, i) ==
    IF i > Len(acts) THEN <<>>
    ELSE IF acts[i].event = event THEN <<i>>
    ELSE MatchingFirst(acts, event, i + 1)

\* actions.iter().filter(|action| action.event == event).collect(): the
\* positions, from i on and in table order, of the bindings the event matches.
RECURSIVE Matching(_, _, _)
Matching(acts, event, i) ==
    IF i > Len(acts) THEN <<>>
    ELSE IF acts[i].event = event THEN <<i>> \o Matching(acts, event, i + 1)
    ELSE Matching(acts, event, i + 1)

\* Lines 369-372: read an event, take the read lock of inputs and collect the
\* bindings it matches; with none, the lock is released at once.
InputRead(events) ==
    /\ Running
    /\ input.pc = "read"
    /\ input.nread < MaxEvents
    /\ \E event \in events :
          LET matching == Matching(actions, event, 1)
          IN  input' = [ pc        |-> IF matching = <<>> THEN "read" ELSE "apply",
                         nread     |-> input.nread + 1,
                         event     |-> event,
                         events    |-> matching,
                         n_actions |-> Len(actions),
                         applied   |-> <<>> ]
    /\ UNCHANGED <<processes, main_messages, base_status, actions, exit_callback,
                   children, tasks, callers, draw, sys, poisoned>>

\* u16 arithmetic: the number of values.
U16 == 65536

\* The subtraction that wraps around below zero.
wrapping_sub(v, d) == (v - d + U16) % U16

\* u16::saturating_sub.
saturating_sub(v, d) == IF v >= d THEN v - d ELSE 0

\* shared.messages.read_access().len()
MessagesLen(cell) ==
    IF cell.cell = "main_messages" THEN Len(main_messages)
    ELSE Len(processes[cell.p][cell.cell])

\* The scroll status a binding holds.
ReadStatus(cell) ==
    IF cell.cell = "main_scroll" THEN base_status.main_scroll
    ELSE processes[cell.p][cell.cell]

\* Write the scroll status a binding holds.
WriteStatus(cell, status) ==
    IF cell.cell = "main_scroll"
    THEN /\ base_status' = [base_status EXCEPT !.main_scroll = status]
         /\ UNCHANGED processes
    ELSE /\ processes' = [processes EXCEPT ![cell.p][cell.cell] = status]
         /\ UNCHANGED base_status

\* The scroll effects with additions that stop at the last value of a u16.
ScrollEffectSaturating(data) ==
    CASE data.ty = "ScrollUp" ->
            LET status == ReadStatus(data.scroll.status)
            IN  WriteStatus(data.scroll.status,
                    IF IsSome(status.y)
                    THEN [status EXCEPT !.y = Some(saturating_sub(Unwrap(status.y), 1))]
                    ELSE [status EXCEPT !.y = Some(MessagesLen(data.scroll.messages) % U16)])
      [] data.ty = "ScrollDown" ->
            LET status == ReadStatus(data.scroll.status)
            IN  WriteStatus(data.scroll.status,
                    IF IsSome(status.y)
                    THEN [status EXCEPT !.y = Some(IF Unwrap(status.y) = U16 - 1
                                                   THEN U16 - 1 ELSE Unwrap(status.y) + 1)]
                    ELSE status)
      [] data.ty = "ScrollLeft" ->
            LET status == ReadStatus(data.scroll.status)
            IN  WriteStatus(data.scroll.status,
                    [status EXCEPT !.x = saturating_sub(status.x, 1)])
      [] data.ty = "ScrollRight" ->
            LET status == ReadStatus(data.scroll.status)
            IN  WriteStatus(data.scroll.status,
                    [status EXCEPT !.x = IF status.x = U16 - 1 THEN U16 - 1 ELSE status.x + 1])
      [] data.ty = "StopScrolling" ->
            WriteStatus(data.status, [ReadStatus(data.status) EXCEPT !.y = None])

\* ActionType::apply for the bindings that write a scroll status.
ScrollEffect(data) ==
    CASE data.ty = "ScrollUp" ->
            LET status == ReadStatus(data.scroll.status)
            IN  WriteStatus(data.scroll.status,
                    IF IsSome(status.y)
                    THEN [status EXCEPT !.y = Some(saturating_sub(Unwrap(status.y), 1))]
                    ELSE [status EXCEPT !.y = Some(MessagesLen(data.scroll.messages) % U16)])
      [] data.ty = "ScrollDown" ->
            LET status == ReadStatus(data.scroll.status)
            IN  WriteStatus(data.scroll.status,
                    IF IsSome(status.y)
                    THEN [status EXCEPT !.y = Some((Unwrap(status.y) + 1) % U16)]
                    ELSE status)
      [] data.ty = "ScrollLeft" ->
            LET status == ReadStatus(data.scroll.status)
            IN  WriteStatus(data.scroll.status,
                    [status EXCEPT !.x = saturating_sub(status.x, 1)])
      [] data.ty = "ScrollRight" ->
            LET status == ReadStatus(data.scroll.status)
            IN  WriteStatus(data.scroll.status, [status EXCEPT !.x = (status.x + 1) % U16])
      [] data.ty = "StopScrolling" ->
            WriteStatus(data.status, [ReadStatus(data.status) EXCEPT !.y = None])

\* Focus going to the stream after the one the binding names.
FocusEffectNext(data) ==
    /\ base_status' = [base_status EXCEPT !.focus =
                          IF data.ty = "Focus" THEN Some(data.index + 1) ELSE None]
    /\ UNCHANGED processes

\* ActionType::apply for Focus and RemoveFocus.
FocusEffect(data) ==
    /\ base_status' = [base_status EXCEPT !.focus =
                          IF data.ty = "Focus" THEN Some(data.index) ELSE None]
    /\ UNCHANGED processes

\* Lines 139 and 150: the addition has no room in the u16.  A build with
\* overflow checks panics there, before the status is written; a build
\* without them wraps around.
Overflows(data) ==
    \/ /\ data.ty = "ScrollDown"
       /\ ReadStatus(data.scroll.status).y = Some(U16 - 1)
    \/ /\ data.ty = "ScrollRight"
       /\ ReadStatus(data.scroll.status).x = U16 - 1

\* Lines 70-72 with ActionType::apply: apply the next collected binding; after
\* the last one the read lock of inputs is released.  An addition that
\* overflows either wraps or ends the thread, as the build has it.  Close restores the
\* terminal here and goes on in InputCloseCallback.  input.applied is history
\* kept for the properties: the positions of the bindings applied so far.
InputApply ==
    /\ Running
    /\ input.pc = "apply"
    /\ LET i == Head(input.events)
           data == actions[i].data
           rest == Tail(input.events)
       IN  /\ StatusFree(data)
           /\ IF data.ty = "Close"
              THEN /\ sys' = [sys EXCEPT !.restored = TRUE]
                   /\ input' = [input EXCEPT !.pc = "close_callback",
                                             !.events = rest,
                                             !.applied = Append(@, i)]
                   /\ UNCHANGED <<base_status, processes>>
              ELSE \/ /\ IF data.ty \in {"Focus", "RemoveFocus"}
                         THEN FocusEffect(data)
                         ELSE ScrollEffect(data)
                      /\ input' = [input EXCEPT !.pc = IF rest = <<>> THEN "read" ELSE "apply",
                                                !.events = rest,
                                                !.applied = Append(@, i)]
                      /\ UNCHANGED sys
                   \/ /\ Overflows(data)
                      /\ input' = [input EXCEPT !.pc = "panicked"]
                      /\ UNCHANGED <<base_status, processes, sys>>
    /\ UNCHANGED <<main_messages, actions, exit_callback, children, tasks, callers,
                   draw, poisoned>>

\* ActionType::apply, Close, lines 121-123: run the callback, if any.
InputCloseCallback ==
    /\ Running
    /\ input.pc = "close_callback"
    /\ sys' = [sys EXCEPT !.invoked = Invoke(exit_callback, @)]
    /\ input' = [input EXCEPT !.pc = "close_exit"]
    /\ UNCHANGED <<processes, main_messages, base_status, actions, exit_callback,
                   children, tasks, callers, draw, poisoned>>

\* ActionType::apply, Close, line 125: std::process::exit(0).
InputCloseExit ==
    /\ Running
    /\ input.pc = "close_exit"
    /\ sys' = [sys EXCEPT !.exited = TRUE, !.code = Some(0)]
    /\ UNCHANGED <<processes, main_messages, base_status, actions, exit_callback,
                   children, tasks, callers, input, draw, poisoned>>

Input(events) ==
    \/ InputRead(events)
    \/ InputApply
    \/ InputCloseCallback
    \/ InputCloseExit

----------------------------------------------------------------------------
\* thread_draw: take a snapshot cell by cell, compare it with the snapshot of
\* the last draw, and draw it when it differs.

\* DrawCache::detach, line 760: clone the main log under its read lock.
DrawDetachMainMessages ==
    /\ Running
    /\ draw.pc = "main_messages"
    /\ draw' = [draw EXCEPT !.pc = "main_scroll",
                            !.read = [DrawCache_default_detach EXCEPT
                                         !.main_messages = main_messages]]
    /\ UNCHANGED <<processes, main_messages, base_status, actions, exit_callback,
                   children, tasks, callers, input, sys, poisoned>>

\* BaseStatus::detach: clone the scroll status of the main log.
DrawDetachMainScroll ==
    /\ Running
    /\ draw.pc = "main_scroll"
    /\ draw' = [draw EXCEPT !.pc = "focus",
                            !.read.main_scroll.main_scroll = base_status.main_scroll]
    /\ UNCHANGED <<processes, main_messages, base_status, actions, exit_callback,
                   children, tasks, callers, input, sys, poisoned>>

\* The focus read with Option::take, which leaves None behind.
DrawTakeFocus ==
    /\ Running
    /\ draw.pc = "focus"
    /\ draw' = [draw EXCEPT !.pc = "processes",
                            !.read.main_scroll.focus = base_status.focus]
    /\ base_status' = [base_status EXCEPT !.focus = None]
    /\ UNCHANGED <<processes, main_messages, actions, exit_callback,
                   children, tasks, callers, input, sys, poisoned>>

\* BaseStatus::detach: clone the focus.
DrawDetachFocus ==
    /\ Running
    /\ draw.pc = "focus"
    /\ draw' = [draw EXCEPT !.pc = "processes",
                            !.read.main_scroll.focus = base_status.focus]
    /\ UNCHANGED <<processes, main_messages, base_status, actions, exit_callback,
                   children, tasks, callers, input, sys, poisoned>>

\* Process::detach keeping the search request of the process.
DetachStartKeepSlot(process) ==
    [ name              |-> process.name,
      settings          |-> process.settings,
      out_messages      |-> <<>>,
      err_messages      |-> <<>>,
      scroll_status_out |-> ScrollStatusDefault,
      scroll_status_err |-> ScrollStatusDefault,
      search_message    |-> process.search_message ]

\* Process::detach before its first read: the name and the settings are
\* cloned without a lock, and search_message becomes the unit value.
DetachStart(process) ==
    [ name              |-> process.name,
      settings          |-> process.settings,
      out_messages      |-> <<>>,
      err_messages      |-> <<>>,
      scroll_status_out |-> ScrollStatusDefault,
      scroll_status_err |-> ScrollStatusDefault,
      search_message    |-> "()" ]

\* The detached process with one more cell read.
DetachField(detached, process, field) ==
    CASE field = "out_messages" ->
             [detached EXCEPT !.out_messages = process.out_messages]
      [] field = "err_messages" ->
             [detached EXCEPT !.err_messages = process.err_messages]
      [] field = "scroll_status_out" ->
             [detached EXCEPT !.scroll_status_out = process.scroll_status_out]
      [] field = "scroll_status_err" ->
             [detached EXCEPT !.scroll_status_err = process.scroll_status_err]

\* DrawCache::detach, lines 762-767: take the read lock of the registry, held
\* until every process is detached.
DrawLockProcesses ==
    /\ Running
    /\ draw.pc = "processes"
    /\ draw' = IF processes = <<>>
               THEN [draw EXCEPT !.pc = "compare"]
               ELSE [draw EXCEPT !.pc = "detach_processes",
                                 !.i = 1,
                                 !.field = 1,
                                 !.read.processes = <<DetachStart(processes[1])>>]
    /\ UNCHANGED <<processes, main_messages, base_status, actions, exit_callback,
                   children, tasks, callers, input, sys, poisoned>>

\* Process::detach, lines 706-709: clone one cell of process i under the
\* cell's read lock; after the last cell of the last process the registry is
\* released.
DrawDetachCell ==
    /\ Running
    /\ draw.pc = "detach_processes"
    /\ LET i == draw.i
           detached == DetachField(draw.read.processes[i], processes[i],
                                   DetachFields[draw.field])
       IN  draw' =
             IF draw.field < Len(DetachFields)
             THEN [draw EXCEPT !.field = @ + 1, !.read.processes[i] = detached]
             ELSE IF i < Len(processes)
             THEN [draw EXCEPT
                      !.i = i + 1,
                      !.field = 1,
                      !.read.processes =
                          Append([draw.read.processes EXCEPT ![i] = detached],
                                 DetachStart(processes[i + 1]))]
             ELSE [draw EXCEPT !.pc = "compare",
                               !.i = 0,
                               !.field = 0,
                               !.read.processes[i] = detached]
    /\ UNCHANGED <<processes, main_messages, base_status, actions, exit_callback,
                   children, tasks, callers, input, sys, poisoned>>

\* BlockFocus: Enter(index) shows the hint with the index, Exit the hint of
\* Escape.
BlockFocus_Exit == None

BlockFocus_Enter(index) == Some(index)

\* The areas of the screen: frame.area() is the empty path, and the chunk n
\* of the split of an area is the path of the area followed by n.
FrameArea == <<>>

Chunk(area, n) == Append(area, n)

\* render_frame: one pane, by the arguments it is rendered from.
render_frame(chunk, name, ty, focus, messages, scroll) ==
    [ chunk |-> chunk, name |-> name, ty |-> ty, focus |-> focus,
      messages |-> messages, scroll |-> scroll ]

\* The full-screen pane of a stream of process i.
FocusedOut(i) ==
    render_frame(FrameArea, i.name, "Out", BlockFocus_Exit,
                 i.out_messages, i.scroll_status_out)

FocusedErr(i) ==
    render_frame(FrameArea, i.name, "Err", BlockFocus_Exit,
                 i.err_messages, i.scroll_status_err)

\* The search that takes an All process for one stream.
RECURSIVE FocusedPaneAllAsOne(_, _, _)
FocusedPaneAllAsOne(procs, index, focus) ==
    IF procs = <<>> THEN <<>>
    ELSE LET i == Head(procs)
             m == i.settings.messages
         IN  CASE m = "Output" ->
                    IF index + 1 = focus THEN <<FocusedOut(i)>>
                    ELSE FocusedPaneAllAsOne(Tail(procs), index + 1, focus)
               [] m = "Error" ->
                    IF index + 1 = focus THEN <<FocusedErr(i)>>
                    ELSE FocusedPaneAllAsOne(Tail(procs), index + 1, focus)
               [] m = "All" ->
                    IF index + 1 = focus THEN <<FocusedOut(i)>>
                    ELSE FocusedPaneAllAsOne(Tail(procs), index + 1, focus)
               [] m = "None" -> FocusedPaneAllAsOne(Tail(procs), index, focus)

\* Lines 415-460: the loop over the processes of the snapshot that counts
\* the streams in index and renders the one whose count is the focus; none
\* is rendered when the count never gets there.
RECURSIVE FocusedPane(_, _, _)
FocusedPane(procs, index, focus) ==
    IF procs = <<>> THEN <<>>
    ELSE LET i == Head(procs)
             m == i.settings.messages
         IN  CASE m = "Output" ->
                    IF index + 1 = focus THEN <<FocusedOut(i)>>
                    ELSE FocusedPane(Tail(procs), index + 1, focus)
               [] m = "Error" ->
                    IF index + 1 = focus THEN <<FocusedErr(i)>>
                    ELSE FocusedPane(Tail(procs), index + 1, focus)
               [] m = "All" ->
                    IF index + 1 = focus THEN <<FocusedOut(i)>>
                    ELSE IF index + 2 = focus THEN <<FocusedErr(i)>>
                    ELSE FocusedPane(Tail(procs), index + 2, focus)
               [] m = "None" -> FocusedPane(Tail(procs), index, focus)

\* Lines 494-555: the loop of the overview over the processes from position
\* index + 1 on (enumerate counts from 0), focus counting the streams.
RECURSIVE OverviewPanes(_, _, _, _)
OverviewPanes(procs, index, focus, processes_chunks) ==
    IF index >= Len(procs) THEN <<>>
    ELSE LET process == procs[index + 1]
             m == process.settings.messages
             chunk == Chunk(processes_chunks, index)
         IN  CASE m = "Output" ->
                    <<render_frame(chunk, process.name, "Out",
                                   BlockFocus_Enter(focus + 1),
                                   process.out_messages, process.scroll_status_out)>>
                        \o OverviewPanes(procs, index + 1, focus + 1, processes_chunks)
               [] m = "Error" ->
                    <<render_frame(chunk, process.name, "Err",
                                   BlockFocus_Enter(focus + 1),
                                   process.err_messages, process.scroll_status_err)>>
                        \o OverviewPanes(procs, index + 1, focus + 1, processes_chunks)
               [] m = "All" ->
                    <<render_frame(Chunk(chunk, 0), process.name, "Out",
                                   BlockFocus_Enter(focus + 1),
                                   process.out_messages, process.scroll_status_out),
                      render_frame(Chunk(chunk, 1), process.name, "Err",
                                   BlockFocus_Enter(focus + 2),
                                   process.err_messages, process.scroll_status_err)>>
                        \o OverviewPanes(procs, index + 1, focus + 2, processes_chunks)
               [] m = "None" ->
                    OverviewPanes(procs, index + 1, focus, processes_chunks)

\* Lines 400-560, the closure of terminal.draw: the panes of the frame, in
\* the order they are rendered.
Frame(read) ==
    LET focus == read.main_scroll.focus
    IN  IF IsSome(focus)
        THEN IF Unwrap(focus) = 0
             THEN <<render_frame(FrameArea, "", "Main", BlockFocus_Exit,
                                 read.main_messages, read.main_scroll.main_scroll)>>
             ELSE FocusedPane(read.processes, 0, Unwrap(focus))
        ELSE <<render_frame(Chunk(FrameArea, 0), "", "Main", BlockFocus_Enter(0),
                            read.main_messages, read.main_scroll.main_scroll)>>
                 \o OverviewPanes(read.processes, 0, 0, Chunk(FrameArea, 1))

\* The null-render test that looks at the main log only.
NullRenderMainLog(read, cache) == read.main_messages = cache.main_messages

\* The null-render test that always compares with the empty snapshot.
NullRenderDefault(read, cache) == read = DrawCache_default_detach

\* Line 386, read == cache: the derived PartialEq, equality of every field.
NullRender(read, cache) == read = cache

\* Lines 386-563: when the snapshot equals the cached one, sleep and take the
\* next one; otherwise store it in the cache, draw it and sleep.  draw.draws
\* and draw.last are history: the frames drawn and what the last tick did;
\* draw.frame is the frame on the screen.
DrawCompare ==
    /\ Running
    /\ draw.pc = "compare"
    /\ IF NullRender(draw.read, draw.cache)
       THEN draw' = [draw EXCEPT !.pc = "main_messages",
                                 !.read = DrawCache_default_detach,
                                 !.last = "skip"]
       ELSE /\ draw.draws < MaxDraws
            /\ draw' = [draw EXCEPT !.pc = "main_messages",
                                    !.cache = draw.read,
                                    !.read = DrawCache_default_detach,
                                    !.draws = @ + 1,
                                    !.last = "draw",
                                    !.frame = Frame(draw.read)]
    /\ UNCHANGED <<processes, main_messages, base_status, actions, exit_callback,
                   children, tasks, callers, input, sys, poisoned>>

Draw ==
    \/ DrawDetachMainMessages
    \/ DrawDetachMainScroll
    \/ DrawDetachFocus
    \/ DrawLockProcesses
    \/ DrawDetachCell
    \/ DrawCompare

----------------------------------------------------------------------------
\* Shared: the locks.  Every cell is an RwLock of its own; a handler is seen
\* here as the sequence of the acquisitions and releases it makes.  sys.todo
\* is what is left of the handler a thread is in, sys.held the guards the
\* thread holds, and sys.waiting the threads blocked inside read() or write().

InputsCell == [cell |-> "inputs"]

FocusCell == [cell |-> "focus"]

ProcessesCell == [cell |-> "processes"]

ExitCallbackCell == [cell |-> "exit_callback"]

\* Shared::read_access and Shared::write_access, and the drop of the guard.
Acquire(lock, mode) == [op |-> "acquire", lock |-> lock, mode |-> mode]

Release(lock) == [op |-> "release", lock |-> lock]

\* Shared::read_with and Shared::write_with around a closure that takes no
\* lock, or a guard that is a temporary of one statement.
Locked(lock, mode) == <<Acquire(lock, mode), Release(lock)>>

\* ActionType::apply, lines 127-167: the write lock of the status for every
\* scroll effect, with the read lock of the buffer inside it when ScrollUp
\* finds the status unpinned; the write lock of the focus for the two focus
\* effects.
ApplyLocks(data) ==
    CASE data.ty = "ScrollUp" ->
            IF IsSome(ReadStatus(data.scroll.status).y)
            THEN Locked(data.scroll.status, "write")
            ELSE << Acquire(data.scroll.status, "write"),
                    Acquire(data.scroll.messages, "read"),
                    Release(data.scroll.messages),
                    Release(data.scroll.status) >>
      [] data.ty \in {"ScrollDown", "ScrollLeft", "ScrollRight"} ->
            Locked(data.scroll.status, "write")
      [] data.ty = "StopScrolling" -> Locked(data.status, "write")
      [] data.ty \in {"Focus", "RemoveFocus"} -> Locked(FocusCell, "write")

\* apply_event, lines 70-72: the effects of the matching bindings, one after
\* the other.
RECURSIVE ApplyEventLocks(_)
ApplyEventLocks(events) ==
    IF events = <<>> THEN <<>>
    ELSE ApplyLocks(actions[Head(events)].data) \o ApplyEventLocks(Tail(events))

\* thread_input, lines 371-373: apply_event inside the read lock of inputs.
ThreadInputLocks(event) ==
    <<Acquire(InputsCell, "read")>>
        \o ApplyEventLocks(Matching(actions, event, 1))
        \o <<Release(InputsCell)>>

\* Process::detach, lines 703-711: the four guards are temporaries of the
\* one struct expression, taken in the order of the fields and dropped
\* together, the last one first, when the expression is complete.
ProcessDetachLocks(p) ==
    << Acquire(ProcCell("out_messages", p), "read"),
       Acquire(ProcCell("err_messages", p), "read"),
       Acquire(ProcCell("scroll_status_out", p), "read"),
       Acquire(ProcCell("scroll_status_err", p), "read"),
       Release(ProcCell("scroll_status_err", p)),
       Release(ProcCell("scroll_status_out", p)),
       Release(ProcCell("err_messages", p)),
       Release(ProcCell("out_messages", p)) >>

RECURSIVE ProcessesDetachLocks(_)
ProcessesDetachLocks(p) ==
    IF p > Len(processes) THEN <<>>
    ELSE ProcessDetachLocks(p) \o ProcessesDetachLocks(p + 1)

\* BaseStatus::detach, lines 207-212: two temporaries of one expression.
BaseStatusDetachLocks ==
    << Acquire(MainScrollCell, "read"),
       Acquire(FocusCell, "read"),
       Release(FocusCell),
       Release(MainScrollCell) >>

\* DrawCache::detach, lines 758-769: the guard of the main log and the guard
\* of the registry are temporaries of the struct expression; the first is
\* held while the statuses and the processes are detached, the second while
\* the processes are.
DrawCacheDetachLocks ==
    <<Acquire(MainMessagesCell, "read")>>
        \o BaseStatusDetachLocks
        \o <<Acquire(ProcessesCell, "read")>>
        \o ProcessesDetachLocks(1)
        \o <<Release(ProcessesCell), Release(MainMessagesCell)>>

\* thread_output, lines 320-330, for one line.
ThreadOutputLocks(p) ==
    Locked(ProcCell("out_messages", p), "write")
        \o Locked(ProcCell("search_message", p), "write")

\* thread_error, lines 349-351, for one line.
ThreadErrorLocks(p) == Locked(ProcCell("err_messages", p), "write")

\* thread_exit, lines 362-364.
ThreadExitLocks == Locked(MainMessagesCell, "write")

\* add_message, with_exit_callback, and block_search_message up to its first
\* poll.
AddMessageLocks == Locked(MainMessagesCell, "write")

WithExitCallbackLocks == Locked(ExitCallbackCell, "write")

BlockSearchLocks(p) ==
    Locked(ProcessesCell, "read")
        \o Locked(ProcCell("search_message", p), "write")
        \o Locked(ProcCell("search_message", p), "write")

\* The keys the keyboard sends here: the two vertical keys of the main log,
\* the two keys of Foo with its release, and two focus keys.
LockEvents ==
    { into_event_no_modifier("Up"), into_event_no_modifier("Down"),
      into_event_no_modifier("Left"), into_event_no_modifier("Right"),
      into_event("Right", "SHIFT"),
      into_event_no_modifier("0"), into_event_no_modifier("Esc") }

\* The handlers a thread may enter.
Handlers(t) ==
    CASE t = "input" -> {ThreadInputLocks(event) : event \in LockEvents}
      [] t = "draw"  -> {DrawCacheDetachLocks}
      [] t = "out"   -> {ThreadOutputLocks(1)}
      [] t = "err"   -> {ThreadErrorLocks(1)}
      [] t = "exit"  -> {ThreadExitLocks}
      [] t = "main"  -> {AddMessageLocks, WithExitCallbackLocks, BlockSearchLocks(1)}

LockHead(t) == Head(sys.todo[t])

Readers(lock) == {t \in LockThreads : <<lock, "read">> \in sys.held[t]}

Writers(lock) == {t \in LockThreads : <<lock, "write">> \in sys.held[t]}

\* The threads blocked inside write() on the lock.
QueuedWriters(lock) ==
    {t \in sys.waiting : sys.todo[t] # <<>> /\ LockHead(t) = Acquire(lock, "write")}

\* RwLock: a writer gets a lock nobody holds; a reader gets a lock no writer
\* holds, and a reader that was made to wait gets it only once no writer is
\* queued (the policy is the platform's: a queued writer may or may not
\* block a call of read()).
Granted(t) ==
    LET a == LockHead(t)
    IN  IF a.mode = "write"
        THEN Readers(a.lock) = {} /\ Writers(a.lock) = {}
        ELSE /\ Writers(a.lock) = {}
             /\ t \in sys.waiting => QueuedWriters(a.lock) = {}

\* Foo is registered and its threads are spawned.
LocksReady ==
    /\ Running
    /\ processes # <<>>
    /\ callers["main"].pc = "idle"

\* A thread enters one of its handlers.
LockBegin(t) ==
    /\ LocksReady
    /\ sys.todo[t] = <<>>
    /\ \E handler \in Handlers(t) : sys' = [sys EXCEPT !.todo[t] = handler]
    /\ UNCHANGED <<processes, main_messages, base_status, actions, exit_callback,
                   children, tasks, callers, input, draw, poisoned>>

\* A call of read() or write() that is not served at once blocks.
LockWait(t) ==
    /\ LocksReady
    /\ sys.todo[t] # <<>>
    /\ t \notin sys.waiting
    /\ LET a == LockHead(t)
       IN  /\ a.op = "acquire"
           /\ IF a.mode = "write"
              THEN Readers(a.lock) # {} \/ Writers(a.lock) # {}
              ELSE Writers(a.lock) # {} \/ QueuedWriters(a.lock) # {}
    /\ sys' = [sys EXCEPT !.waiting = @ \cup {t}]
    /\ UNCHANGED <<processes, main_messages, base_status, actions, exit_callback,
                   children, tasks, callers, input, draw, poisoned>>

\* read() or write() returns the guard.
LockAcquire(t) ==
    /\ LocksReady
    /\ sys.todo[t] # <<>>
    /\ LockHead(t).op = "acquire"
    /\ Granted(t)
    /\ sys' = [sys EXCEPT !.todo[t] = Tail(@),
                          !.held[t] = @ \cup {<<LockHead(t).lock, LockHead(t).mode>>},
                          !.waiting = @ \ {t}]
    /\ UNCHANGED <<processes, main_messages, base_status, actions, exit_callback,
                   children, tasks, callers, input, draw, poisoned>>

\* The guard is dropped.
LockRelease(t) ==
    /\ LocksReady
    /\ sys.todo[t] # <<>>
    /\ LockHead(t).op = "release"
    /\ sys' = [sys EXCEPT !.todo[t] = Tail(@),
                          !.held[t] = {h \in @ : h[1] # LockHead(t).lock}]
    /\ UNCHANGED <<processes, main_messages, base_status, actions, exit_callback,
                   children, tasks, callers, input, draw, poisoned>>

----------------------------------------------------------------------------
\* Registration on its own: the caller's threads only call add_process.

\* A child whose pipes are open and that prints nothing.
Quiet(name, messages, scroll) ==
    [ name |-> name,
      settings |-> [messages |-> messages, scroll |-> scroll, clear_regex |-> TRUE],
      stdout |-> Some(<<>>),
      stderr |-> Some(<<>>) ]

RegInputs ==
    { Quiet("Foo", "Output", Enable("Left", "Right")),
      Quiet("Bar", "All", Disable),
      Quiet("Baz", "Error", Disable),
      Quiet("Qux", "None", Disable),
      [Quiet("Bad", "Output", Disable) EXCEPT !.stdout = None] }

NextReg == \E t \in Callers : AddProcess(t, RegInputs, MaxProcs)

SpecReg == Init /\ [][NextReg]_vars

\* Registration up to the focus limit: enough streams for a tenth index.
\* No process asks for scroll bindings here, so the scroll loop is not run.
FocusInputs ==
    { Quiet("Foo", "Output", Disable),
      Quiet("Bar", "All", Disable) }

NextFocus ==
    \E t \in Callers :
        \/ AddProcessPush(t, FocusInputs, MaxFocusProcs)
        \/ AddProcessFocus(t)

SpecFocus == Init /\ [][NextFocus]_vars

----------------------------------------------------------------------------
\* Searching the output of Foo, which prints hello, world, foo, bar
\* (examples/processes.rs), with the calls serialized per process.

Hello == <<"h", "e", "l", "l", "o">>

World == <<"w", "o", "r", "l", "d">>

FooLine == <<"f", "o", "o">>

BarLine == <<"b", "a", "r">>

Llo == <<"l", "l", "o">>

SearchInputs ==
    { [ name |-> "Foo",
        settings |-> [messages |-> "Output", scroll |-> Disable, clear_regex |-> TRUE],
        stdout |-> Some(<<Hello, World, FooLine, BarLine>>),
        stderr |-> Some(<<>>) ] }

SearchNames == {"Foo", "Nope"}

SearchSubs == {Llo, <<"o">>}

NextSearch ==
    \/ \E t \in Callers :
          \/ AddProcessPush(t, SearchInputs, MaxFewProcs)
          \/ AddProcessFocus(t)
          \/ BlockSearch(t, SearchNames, SearchSubs, TRUE)
    \/ \E p \in 1..Len(tasks) :
          \/ OutRead(p)
          \/ OutSearch(p)
          \/ ChildExit(p)
          \/ ThreadExit(p)

SpecSearch == Init /\ [][NextSearch]_vars

\* The scenario of examples/processes.rs: Foo is registered once and
\* "llo" is searched in its output, under fair scheduling of the threads.
NextHello ==
    \/ \E t \in Callers :
          \/ AddProcessPush(t, SearchInputs, 1)
          \/ AddProcessFocus(t)
          \/ BlockSearch(t, {"Foo"}, {Llo}, TRUE)
    \/ \E p \in 1..Len(tasks) :
          \/ OutRead(p)
          \/ OutSearch(p)
          \/ ChildExit(p)
          \/ ThreadExit(p)

\* Every thread that can take a step eventually takes one.
HelloFairness ==
    /\ \A t \in Callers :
          /\ WF_vars(AddProcessFocus(t))
          /\ WF_vars(BlockSearchFind(t, TRUE))
          /\ WF_vars(BlockSearchInstall(t))
          /\ WF_vars(BlockSearchPoll(t))
    /\ WF_vars(OutRead(1) \/ OutSearch(1))
    /\ WF_vars(ThreadExit(1))

SpecHello == Init /\ [][NextHello]_vars /\ HelloFairness

----------------------------------------------------------------------------
\* Termination: exit callbacks, end_terminal from the caller's threads and
\* Ctrl+C from the keyboard (examples/exit_callback.rs).

CtrlC == into_event("c", "CONTROL")

ExitEvents == {CtrlC, into_event_no_modifier("Esc"), into_event_no_modifier("0")}

ExitClosures == {"cb1", "cb2"}

NextExit ==
    \/ \E t \in Callers :
          \/ WithExitCallback(t, ExitClosures)
          \/ Kill(t)
    \/ Input(ExitEvents)

SpecExit == Init /\ [][NextExit]_vars

----------------------------------------------------------------------------
\* The keyboard: Foo is registered with scrolling on Left and Right, as in
\* examples/processes.rs, so that one key is bound to several effects.

InputInputs == {Quiet("Foo", "Output", Enable("Left", "Right"))}

InputEvents ==
    { into_event_no_modifier("Left"), into_event_no_modifier("Right"),
      into_event("Right", "SHIFT"), into_event_no_modifier("1"), CtrlC }

NextInput ==
    \/ \E t \in Callers : AddProcess(t, InputInputs, MaxFewProcs)
    \/ Input(InputEvents)

SpecInput == Init /\ [][NextInput]_vars

----------------------------------------------------------------------------
\* Redrawing: the main thread writes to the main log and registers Foo, which
\* prints hello, while the redraw thread takes its snapshots.

DrawInputs ==
    { [ name |-> "Foo",
        settings |-> [messages |-> "Output", scroll |-> Disable, clear_regex |-> TRUE],
        stdout |-> Some(<<Hello>>),
        stderr |-> Some(<<>>) ] }

NextDraw ==
    \/ AddMessage("main", {World})
    \/ AddProcessPush("main", DrawInputs, MaxFewProcs)
    \/ AddProcessFocus("main")
    \/ \E p \in 1..Len(tasks) :
          \/ OutRead(p)
          \/ OutSearch(p)
    \/ Draw

SpecDraw == Init /\ [][NextDraw]_vars

----------------------------------------------------------------------------
\* Every thread at once.  The main thread runs the calls of the examples in
\* program order: with_exit_callback, add_process of Bar (both streams shown,
\* one line printed on each, scrolling on Left and Right), tprintln and
\* block_search; the capture, exit and input threads run beside it, and the
\* redraw thread, asleep until then, wakes up once Bar has exited, its lines
\* are captured and the keys are pressed.

AllInputs ==
    { [ name |-> "Bar",
        settings |-> [messages |-> "All", scroll |-> Enable("Left", "Right"),
                      clear_regex |-> TRUE],
        stdout |-> Some(<<Hello>>),
        stderr |-> Some(<<World>>) ] }

AllEvents == {into_event_no_modifier("Left"), into_event_no_modifier("1")}

\* Every child has exited, its threads have nothing left to do and the last
\* key has been handled.
Settled ==
    /\ processes # <<>>
    /\ input.pc = "read"
    /\ input.nread = MaxEvents
    /\ \A p \in 1..Len(tasks) :
          /\ tasks[p].exit = "done"
          /\ tasks[p].out = [pc |-> "read", stdout |-> <<>>]
          /\ tasks[p].err = [pc |-> "read", stderr |-> <<>>]

NextAll ==
    \/ sys.registered = <<>> /\ WithExitCallback("main", {"cb1"})
    \/ sys.registered # <<>> /\ AddProcess("main", AllInputs, 1)
    \/ processes # <<>> /\ Injected = 0 /\ AddMessage("main", {World})
    \/ Injected > 0 /\ BlockSearch("main", {"Bar"}, {Llo}, TRUE)
    \/ \E p \in 1..Len(tasks) :
          \/ Capture(p)
          \/ ChildExit(p)
          \/ ThreadExit(p)
    \/ InputRead(AllEvents)
    \/ InputApply
    \/ Settled /\ Draw

SpecAll == Init /\ [][NextAll]_vars

----------------------------------------------------------------------------
\* Exit notices: Foo prints hello and exits; Bad is registered with its
\* output shown but without a stdout pipe; the caller writes to the main log
\* as well.  thread_exit is scheduled fairly.

NoticeInputs ==
    { [ name |-> "Foo",
        settings |-> [messages |-> "Output", scroll |-> Disable, clear_regex |-> TRUE],
        stdout |-> Some(<<Hello>>),
        stderr |-> Some(<<>>) ],
      [Quiet("Bad", "Output", Disable) EXCEPT !.stdout = None] }

NoticeMessages == {World}

NextNotice ==
    \/ \E t \in Callers :
          \/ AddProcessPush(t, NoticeInputs, MaxFewProcs)
          \/ AddProcessFocus(t)
          \/ AddMessage(t, NoticeMessages)
    \/ \E p \in 1..Len(tasks) :
          \/ OutRead(p)
          \/ OutSearch(p)
          \/ ChildExit(p)
          \/ ThreadExit(p)

\* child.wait() returns once the child has exited, and the thread goes on.
NoticeFairness == \A p \in 1..MaxFewProcs : WF_vars(ThreadExit(p))

SpecNotice == Init /\ [][NextNotice]_vars /\ NoticeFairness

----------------------------------------------------------------------------
\* Registration of a child with or without each pipe, under each setting.

PipeInputs ==
    { [ name |-> "Foo",
        settings |-> [messages |-> messages, scroll |-> scroll, clear_regex |-> TRUE],
        stdout |-> stdout,
        stderr |-> stderr ] :
      messages \in {"Output", "Error", "All", "None"},
      scroll \in {Disable, Enable("Left", "Right")},
      stdout \in {None, Some(<<>>)},
      stderr \in {None, Some(<<>>)} }

NextPipes == \E t \in Callers : AddProcess(t, PipeInputs, MaxFewProcs)

SpecPipes == Init /\ [][NextPipes]_vars

----------------------------------------------------------------------------
\* Searching a line that Bar, registered with both streams shown, prints on
\* its error stream (examples/processes.rs prints its error line with >&2).
\* Every thread is scheduled fairly.

ErrInputs ==
    { [ name |-> "Bar",
        settings |-> [messages |-> "All", scroll |-> Disable, clear_regex |-> TRUE],
        stdout |-> Some(<<World>>),
        stderr |-> Some(<<Hello>>) ] }

NextErr ==
    \/ \E t \in Callers :
          \/ AddProcessPush(t, ErrInputs, MaxFewProcs)
          \/ AddProcessFocus(t)
          \/ BlockSearch(t, {"Bar"}, {Llo}, TRUE)
    \/ \E p \in 1..Len(tasks) : Capture(p)

ErrFairness ==
    /\ \A t \in Callers :
          /\ WF_vars(AddProcessFocus(t))
          /\ WF_vars(BlockSearchFind(t, TRUE))
          /\ WF_vars(BlockSearchInstall(t))
          /\ WF_vars(BlockSearchPoll(t))
    /\ \A p \in 1..MaxFewProcs : WF_vars(Capture(p))

SpecErr == Init /\ [][NextErr]_vars /\ ErrFairness

----------------------------------------------------------------------------
\* Scrolling the main log with Up and Down (and panning it with Right), from
\* the states where it holds no line or two lines and is either unpinned or
\* was pinned by Up and moved by Down to two below the last value of a u16.

\* A log of n lines.
Lines(n) == [i \in 1..n |-> World]

ScrollLogs == {<<>>, Lines(2)}

ScrollPins == {None, Some(U16 - 2)}

ScrollEvents ==
    { into_event_no_modifier("Up"), into_event_no_modifier("Down"),
      into_event_no_modifier("Right") }

\* The state after add_message was called that many times and the keys were
\* pressed that brought the pin there; the histories start from here.
InitScroll ==
    /\ processes = <<>>
    /\ main_messages \in ScrollLogs
    /\ \E y \in ScrollPins :
          base_status = [main_scroll |-> [x |-> 0, y |-> y], focus |-> None]
    /\ actions = BuiltinActions
    /\ exit_callback = None
    /\ children = <<>>
    /\ tasks = <<>>
    /\ callers = [t \in Callers |->
                     IF t = "main" /\ main_messages # <<>>
                     THEN Returned(IdleCaller, "add_message", Ok("()"))
                     ELSE IdleCaller]
    /\ input = [pc |-> "read", nread |-> 0, event |-> None, events |-> <<>>,
                n_actions |-> 0, applied |-> <<>>]
    /\ draw = [pc |-> "main_messages", read |-> DrawCache_default_detach,
               cache |-> DrawCache_default_detach, i |-> 0, field |-> 0,
               draws |-> 0, last |-> "none", frame |-> <<>>]
    /\ sys = [restored |-> FALSE, invoked |-> <<>>, registered |-> <<>>,
              armed |-> FALSE, exited |-> FALSE, code |-> None,
              todo |-> [t \in LockThreads |-> <<>>],
              held |-> [t \in LockThreads |-> {}],
              waiting |-> {}]
    /\ poisoned = {}

NextScroll ==
    \/ InputRead(ScrollEvents)
    \/ InputApply

SpecScroll == InitScroll /\ [][NextScroll]_vars

----------------------------------------------------------------------------
\* The scroll keys of processes: the main thread registers Foo, which scrolls
\* with Left and Right (examples/processes.rs), and Bar, which scrolls with
\* PageUp and PageDown, while the keyboard sends those keys and their shifted
\* variants.

KeyInputs ==
    { Quiet("Foo", "All", Enable("Left", "Right")),
      Quiet("Bar", "All", Enable("PageUp", "PageDown")) }

KeyEvents ==
    { into_event_no_modifier("Left"), into_event("Left", "SHIFT"),
      into_event("Right", "SHIFT"), into_event_no_modifier("PageUp"),
      into_event("PageDown", "SHIFT") }

NextKeys ==
    \/ AddProcess("main", KeyInputs, MaxKeyProcs)
    \/ InputRead(KeyEvents)
    \/ InputApply

SpecKeys == Init /\ [][NextKeys]_vars

----------------------------------------------------------------------------
\* The focus keys: the main thread registers processes with one or two
\* visible streams while the keyboard sends the digits 0, 1, 9 and Escape.

DigitEvents ==
    { into_event_no_modifier("0"), into_event_no_modifier("1"),
      into_event_no_modifier("9"), into_event_no_modifier("Esc") }

NextDigits ==
    \/ AddProcessPush("main", FocusInputs, MaxFocusProcs)
    \/ AddProcessFocus("main")
    \/ InputRead(DigitEvents)
    \/ InputApply

SpecDigits == Init /\ [][NextDigits]_vars

----------------------------------------------------------------------------
\* The panes of the frame: the main thread registers processes of every
\* message setting while the keyboard sends the focus keys; the redraw thread
\* is looked at once the keys are in, and takes each snapshot between two
\* steps of the main thread.

PaneInputs ==
    { Quiet("Foo", "Output", Disable),
      Quiet("Bar", "All", Disable),
      Quiet("Baz", "Error", Disable),
      Quiet("Qux", "None", Disable) }

PaneEvents ==
    { into_event_no_modifier("0"), into_event_no_modifier("1"),
      into_event_no_modifier("2"), into_event_no_modifier("3") }

NextPanes ==
    \/ draw.pc = "main_messages" /\ AddProcessPush("main", PaneInputs, MaxPaneProcs)
    \/ draw.pc = "main_messages" /\ AddProcessFocus("main")
    \/ InputRead(PaneEvents)
    \/ InputApply
    \/ /\ callers["main"].pc = "idle"
       /\ input.pc = "read"
       /\ input.nread = MaxEvents
       /\ Draw

SpecPanes == Init /\ [][NextPanes]_vars

----------------------------------------------------------------------------
\* The redraw thread at its own pace: the main thread registers Foo once,
\* Foo prints hello, and the redraw thread ticks for ever (its loop sleeps and
\* goes on, whatever the other threads do).

NextTick ==
    \/ AddProcessPush("main", DrawInputs, 1)
    \/ AddProcessFocus("main")
    \/ \E p \in 1..Len(tasks) :
          \/ OutRead(p)
          \/ OutSearch(p)
    \/ Draw

TickFairness == WF_vars(Draw)

SpecTick == Init /\ [][NextTick]_vars /\ TickFairness

----------------------------------------------------------------------------
\* Two waiters on one process: the main thread registers Foo and searches
\* "llo" in its output, and the second thread searches "wor" there once, without
\* waiting for the first call to return; its request is installed while the
\* request of the main thread is in the slot, unresolved.

Wor == <<"w", "o", "r">>

\* The request thread t installed is in the slot and has no line yet.
Unresolved(t) ==
    /\ callers[t].pc = "bs_poll"
    /\ processes[callers[t].process].search_message
          = Some(SearchMessage_new(callers[t].submsg))

NextOverwrite ==
    \/ AddProcessPush("main", SearchInputs, 1)
    \/ AddProcessFocus("main")
    \/ /\ callers["main"].pc = "idle"
       /\ callers["main"].op = "add_process"
       /\ BlockSearchCall("main", {"Foo"}, {Llo})
    \/ BlockSearchFind("main", FALSE)
    \/ BlockSearchInstall("main")
    \/ BlockSearchPoll("main")
    \/ callers["worker"].calls = 0 /\ BlockSearchCall("worker", {"Foo"}, {Wor})
    \/ BlockSearchFind("worker", FALSE)
    \/ Unresolved("main") /\ BlockSearchInstall("worker")
    \/ BlockSearchPoll("worker")
    \/ OutRead(1)
    \/ OutSearch(1)

\* The capture thread and the loops of the waiters go on.
OverwriteFairness ==
    /\ WF_vars(BlockSearchPoll("main"))
    /\ WF_vars(BlockSearchPoll("worker"))
    /\ WF_vars(OutRead(1) \/ OutSearch(1))

SpecOverwrite == Init /\ [][NextOverwrite]_vars /\ OverwriteFairness

----------------------------------------------------------------------------
\* Capturing: the main thread registers Foo, which prints two lines, the
\* first one coloured, and Bar, which prints one line and two errors; the
\* capture threads read the pipes and the children exit.

Coloured == <<Esc, "[", "3", "1", "m">> \o Hello

CaptureInputs ==
    { [ name |-> "Foo",
        settings |-> [messages |-> "Output", scroll |-> Disable, clear_regex |-> TRUE],
        stdout |-> Some(<<Coloured, World>>),
        stderr |-> Some(<<>>) ],
      [ name |-> "Bar",
        settings |-> [messages |-> "All", scroll |-> Disable, clear_regex |-> FALSE],
        stdout |-> Some(<<FooLine>>),
        stderr |-> Some(<<Coloured, BarLine>>) ] }

NextCapture ==
    \/ AddProcessPush("main", CaptureInputs, MaxCaptureProcs)
    \/ AddProcessFocus("main")
    \/ \E p \in 1..Len(tasks) :
          \/ Capture(p)
          \/ ChildExit(p)
          \/ ThreadExit(p)

SpecCapture == Init /\ [][NextCapture]_vars

----------------------------------------------------------------------------
\* Registrations that fail: the main thread registers Bar, which shows both
\* streams and scrolls, up to the tenth stream and beyond, and Bad, whose
\* output is shown and has no pipe; the redraw thread takes each snapshot
\* between two steps of the main thread.

RollbackInputs ==
    { Quiet("Bar", "All", Enable("Left", "Right")),
      [Quiet("Bad", "Output", Disable) EXCEPT !.stdout = None] }

NextRollback ==
    \/ draw.pc = "main_messages" /\ AddProcess("main", RollbackInputs, MaxFocusProcs)
    \/ callers["main"].pc = "idle" /\ Draw

SpecRollback == Init /\ [][NextRollback]_vars

----------------------------------------------------------------------------
\* The slot of a process under one discipline and the other: the main thread
\* registers Foo and Bar, which print hello and world, and searches "llo"
\* in one of them; the second thread searches "wor" in one of them, once.
\* The threads serialize their calls on Bar and do not on Foo.

SlotInputs ==
    { [ name |-> "Foo",
        settings |-> [messages |-> "Output", scroll |-> Disable, clear_regex |-> TRUE],
        stdout |-> Some(<<Hello, World>>),
        stderr |-> Some(<<>>) ],
      [ name |-> "Bar",
        settings |-> [messages |-> "Output", scroll |-> Disable, clear_regex |-> TRUE],
        stdout |-> Some(<<Hello, World>>),
        stderr |-> Some(<<>>) ] }

\* The calls of thread t on the process it names are serialized.
Serialized(t) == callers[t].pc = "bs_find" /\ callers[t].name = "Bar"

NextSlot ==
    \/ /\ RegisteredNames # {"Foo", "Bar"}
       /\ \E inp \in SlotInputs :
             /\ inp.name \notin RegisteredNames
             /\ AddProcessPush("main", {inp}, 2)
    \/ AddProcessFocus("main")
    \/ /\ RegisteredNames = {"Foo", "Bar"}
       /\ callers["main"].pc = "idle"
       /\ callers["main"].op = "add_process"
       /\ BlockSearchCall("main", {"Foo", "Bar"}, {Llo})
    \/ /\ RegisteredNames = {"Foo", "Bar"}
       /\ callers["worker"].calls = 0
       /\ BlockSearchCall("worker", {"Foo", "Bar"}, {Wor})
    \/ \E t \in Callers :
          \/ BlockSearchFind(t, Serialized(t))
          \/ BlockSearchInstall(t)
          \/ BlockSearchPoll(t)
    \/ \E p \in 1..Len(tasks) :
          \/ OutRead(p)
          \/ OutSearch(p)

SpecSlot == Init /\ [][NextSlot]_vars

----------------------------------------------------------------------------
\* The pin of the main log: the main thread writes to the main log and
\* registers Foo, which scrolls with the keys of the main log, Up and Down, so
\* that shift and Down is its release; the keyboard sends those keys, and
\* the redraw thread is looked at once the keys are in.

PinInputs ==
    { [ name |-> "Foo",
        settings |-> [messages |-> "All", scroll |-> Enable("Up", "Down"),
                      clear_regex |-> TRUE],
        stdout |-> Some(<<>>),
        stderr |-> Some(<<>>) ] }

PinEvents ==
    { into_event_no_modifier("Up"), into_event_no_modifier("Down"),
      into_event("Down", "SHIFT"), into_event("Up", "SHIFT"),
      into_event_no_modifier("Esc") }

NextPin ==
    \/ AddMessage("main", {World})
    \/ AddProcess("main", PinInputs, 1)
    \/ \E p \in 1..Len(tasks) : Capture(p) \/ ChildExit(p) \/ ThreadExit(p)
    \/ callers["main"].pc = "idle" /\ InputRead(PinEvents)
    \/ InputApply
    \/ input.pc = "read" /\ input.nread = MaxEvents /\ callers["main"].pc = "idle" /\ Draw

SpecPin == Init /\ [][NextPin]_vars

----------------------------------------------------------------------------
\* The locks: the main thread registers Foo, with its two streams and its
\* scroll keys, and then every thread goes through its handlers lock by lock.

LockInputs ==
    { [ name |-> "Foo",
        settings |-> [messages |-> "All", scroll |-> Enable("Left", "Right"),
                      clear_regex |-> TRUE],
        stdout |-> Some(<<Hello>>),
        stderr |-> Some(<<World>>) ] }

NextLocks ==
    \/ AddProcess("main", LockInputs, 1)
    \/ \E t \in LockThreads :
          LockBegin(t) \/ LockWait(t) \/ LockAcquire(t) \/ LockRelease(t)

SpecLocks == Init /\ [][NextLocks]_vars

----------------------------------------------------------------------------
\* The scroll counters at the ends of a u16: the main log is empty, of two
\* lines or of one line more than a u16 counts; its pin is absent, at zero or
\* at the last value, and so is its horizontal offset; the keyboard sends the
\* four scroll keys.

WideLogs == {<<>>, Lines(2), Lines(U16 + 1)}

WidePins == {None, Some(0), Some(U16 - 1)}

WideOffsets == {0, U16 - 1}

WideEvents ==
    { into_event_no_modifier("Up"), into_event_no_modifier("Down"),
      into_event_no_modifier("Left"), into_event_no_modifier("Right") }

\* The state after add_message was called that many times and the keys were
\* pressed that brought the status there.
InitWide ==
    /\ processes = <<>>
    /\ main_messages \in WideLogs
    /\ \E y \in WidePins, x \in WideOffsets :
          /\ Len(main_messages) > 2 => y = None /\ x = 0
          /\ base_status = [main_scroll |-> [x |-> x, y |-> y], focus |-> None]
    /\ actions = BuiltinActions
    /\ exit_callback = None
    /\ children = <<>>
    /\ tasks = <<>>
    /\ callers = [t \in Callers |->
                     IF t = "main" /\ main_messages # <<>>
                     THEN Returned(IdleCaller, "add_message", Ok("()"))
                     ELSE IdleCaller]
    /\ input = [pc |-> "read", nread |-> 0, event |-> None, events |-> <<>>,
                n_actions |-> 0, applied |-> <<>>]
    /\ draw = [pc |-> "main_messages", read |-> DrawCache_default_detach,
               cache |-> DrawCache_default_detach, i |-> 0, field |-> 0,
               draws |-> 0, last |-> "none", frame |-> <<>>]
    /\ sys = [restored |-> FALSE, invoked |-> <<>>, registered |-> <<>>,
              armed |-> FALSE, exited |-> FALSE, code |-> None,
              todo |-> [t \in LockThreads |-> <<>>],
              held |-> [t \in LockThreads |-> {}],
              waiting |-> {}]
    /\ poisoned = {}

NextWide ==
    \/ InputRead(WideEvents)
    \/ InputApply

SpecWide == InitWide /\ [][NextWide]_vars

----------------------------------------------------------------------------
\* The snapshot: the main thread writes to the main log, registers Foo with
\* its scroll keys and searches its output; Foo prints; the keyboard sends
\* the focus key of the main log and the scroll-up key of Foo; the redraw
\* thread takes its snapshots in between.

SnapInputs ==
    { [ name |-> "Foo",
        settings |-> [messages |-> "Output", scroll |-> Enable("Left", "Right"),
                      clear_regex |-> TRUE],
        stdout |-> Some(<<Hello>>),
        stderr |-> Some(<<>>) ] }

SnapKeys == {into_event_no_modifier("0"), into_event_no_modifier("Left")}

\* add_process has returned.
SnapRegistered ==
    /\ processes # <<>>
    /\ callers["main"].pc \notin {"ap_scroll", "ap_focus"}

NextSnap ==
    \/ processes = <<>> /\ main_messages = <<>> /\ AddMessage("main", {World})
    \/ AddProcess("main", SnapInputs, 1)
    \/ /\ callers["main"].pc = "idle" /\ callers["main"].op = "add_process"
       /\ BlockSearchCall("main", {"Foo"}, {Llo})
    \/ BlockSearchFind("main", FALSE) \/ BlockSearchInstall("main") \/ BlockSearchPoll("main")
    \/ OutRead(1) \/ OutSearch(1)
    \/ SnapRegistered /\ input.nread < 2 /\ InputRead(SnapKeys)
    \/ InputApply
    \/ Draw

SpecSnap == Init /\ [][NextSnap]_vars

----------------------------------------------------------------------------
\* Properties of registration.

\* The visible streams of a setting, as the specification counts them.
VisibleStreams(messages) ==
    IF messages = "All" THEN 2 ELSE IF messages = "None" THEN 0 ELSE 1

\* The visible streams of the first n processes of the registry.
RECURSIVE VisibleBefore(_)
VisibleBefore(n) ==
    IF n = 0 THEN 0
    ELSE VisibleBefore(n - 1) + VisibleStreams(processes[n].settings.messages)

\* A thread inside add_process that has been given its focus indexes.
HasIndexes(t) == callers[t].pc \in {"ap_scroll", "ap_focus"}

\* C1: the focus indexes add_process gives to the streams of a process are
\* pre+1 (and pre+2 for the error stream when both are visible), pre being the
\* visible streams of the processes before it in the registry, whatever the
\* interleaving of the calls; with Foo (output only) first and Bar (both
\* streams) second, Bar's error stream has index 3.
C1_FocusIndexes ==
    \A t \in Callers :
        HasIndexes(t) =>
            LET p == callers[t].process
                pre == VisibleBefore(p - 1)
                messages == processes[p].settings.messages
                given == callers[t].focus_indexes
            IN  /\ messages \in {"Output", "Error"} => given = <<pre + 1>>
                /\ messages = "All" => given = <<pre + 1, pre + 2>>
                /\ messages = "None" => given = <<>>
                /\ ( /\ p = 2
                     /\ processes[1].name = "Foo"
                     /\ processes[1].settings.messages = "Output"
                     /\ processes[2].name = "Bar"
                     /\ messages = "All" ) => given[2] = 3

\* C1's case: Bar (both streams) is being registered right after Foo (output
\* only), by a call that overlaps another one's.
C1_Witness ==
    \E t \in Callers :
        /\ HasIndexes(t)
        /\ callers[t].process = 2
        /\ processes[1].name = "Foo"
        /\ processes[2].name = "Bar"
        /\ callers[t].focus_indexes = <<2, 3>>
        /\ \E u \in Callers \ {t} : HasIndexes(u) /\ callers[u].process = 1

\* C2: a call of add_process that has taken its pipes returns Ok exactly when
\* every focus index it assigns is at most 9.
C2_FocusLimit ==
    [][\A t \in Callers :
          (callers[t].pc = "ap_focus" /\ callers'[t].pc = "idle") =>
              LET given == callers[t].focus_indexes
              IN  callers'[t].result.ok <=> \A i \in 1..Len(given) : given[i] <= 9]_vars

\* C2's case: the registration of the ninth stream has succeeded (its binding
\* is in the table) and the one of the tenth has returned the error.
C2_Witness ==
    /\ \E i \in 1..Len(actions) :
          actions[i].data.ty = "Focus" /\ actions[i].data.index = 9
    /\ \A i \in 1..Len(actions) :
          actions[i].data.ty = "Focus" => actions[i].data.index <= 9
    /\ VisibleBefore(Len(processes)) >= 10
    /\ \E t \in Callers :
          /\ callers[t].pc = "idle"
          /\ callers[t].op = "add_process"
          /\ callers[t].result = Err("Can't add more then 9 processes.")

----------------------------------------------------------------------------
\* Properties of block_search.

\* Thread t has returned this value from block_search.
SearchReturned(t, result) ==
    /\ callers[t].pc = "idle"
    /\ callers[t].op = "block_search"
    /\ callers[t].result = result

\* The capture thread of p has yet to compare the line with the request.
Ahead(p, line) ==
    \/ \E i \in 1..Len(tasks[p].out.stdout) : tasks[p].out.stdout[i] = line
    \/ tasks[p].out.pc = "search" /\ tasks[p].out.line = line

\* Thread t is inside block_search("Foo", "llo").
SearchingLlo(t) ==
    /\ callers[t].pc \in {"bs_install", "bs_poll"}
    /\ callers[t].submsg = Llo
    /\ processes[callers[t].process].name = "Foo"

\* C3 as claimed: block_search("Foo", "llo") eventually returns "hello" in
\* every interleaving with Foo's capture thread, also when hello was captured
\* before the request was installed.
C3_Original ==
    \A t \in Callers : SearchingLlo(t) ~> SearchReturned(t, Ok(Hello))

\* C3 as amended: block_search("Foo", "llo") eventually returns "hello" when
\* its request is installed before Foo's capture thread has compared hello.
C3_ReturnsHello ==
    \A t \in Callers :
        (SearchingLlo(t) /\ callers[t].pc = "bs_poll" /\ Ahead(callers[t].process, Hello))
            ~> SearchReturned(t, Ok(Hello))

\* C3's case: the call has returned hello and Foo's later lines are captured.
C3_Witness ==
    \E t \in Callers :
        /\ SearchReturned(t, Ok(Hello))
        /\ processes[1].out_messages = <<Hello, World, FooLine, BarLine>>

\* The step by which thread t returns from the polling loop.
PollReturns(t) == callers[t].pc = "bs_poll" /\ callers'[t].pc = "idle"

\* C4: with the calls serialized per process, block_search returns only a line
\* that contains the substring and that the capture thread compared with the
\* request after the call installed it; without such a line the call stays in
\* its loop.
C4_ReturnsExaminedMatch ==
    [][\A t \in Callers :
          PollReturns(t) =>
              /\ callers'[t].result.ok
              /\ Contains(callers'[t].result.v, callers[t].submsg)
              /\ \E i \in 1..Len(callers[t].seen) :
                    callers[t].seen[i] = callers'[t].result.v]_vars

\* C4's case: one call has returned a line, and a later call is in its loop on
\* a process that has exited and has no line left, having seen no match.
C4_Witness ==
    \E t \in Callers, u \in Callers :
        /\ SearchReturned(t, Ok(Hello))
        /\ callers[u].pc = "bs_poll"
        /\ children[callers[u].process].exited
        /\ tasks[callers[u].process].exit = "done"
        /\ tasks[callers[u].process].out = [pc |-> "read", stdout |-> <<>>]
        /\ processes[callers[u].process].search_message
               = Some(SearchMessage_new(callers[u].submsg))

\* The first line of seen that contains sub, as an Option.
RECURSIVE FirstMatch(_, _)
FirstMatch(seen, sub) ==
    IF seen = <<>> THEN None
    ELSE IF Contains(Head(seen), sub) THEN Some(Head(seen))
    ELSE FirstMatch(Tail(seen), sub)

\* C5 as claimed: once a request is resolved its line does not change until
\* the waiter clears it, and block_search returns the first matching line
\* compared after installation.
C5_Original ==
    [][/\ \A p \in 1..Len(processes) :
             LET slot == processes[p].search_message
                 next == processes'[p].search_message
             IN  (IsSome(slot) /\ IsSome(Unwrap(slot).message) /\ IsSome(next))
                     => Unwrap(next).message = Unwrap(slot).message
       /\ \A t \in Callers :
             PollReturns(t) =>
                 Some(callers'[t].result.v) = FirstMatch(callers[t].seen, callers[t].submsg)]_vars

\* C6: block_search with a name no registered process has returns the error
\* at once, and installs no request and changes no buffer, status or binding.
C6_UnknownName ==
    [][\A t \in Callers :
          ( /\ callers[t].pc = "bs_find"
            /\ callers'[t] # callers[t]
            /\ callers[t].name \notin RegisteredNames )
          => /\ callers'[t].pc = "idle"
             /\ callers'[t].op = "block_search"
             /\ callers'[t].result = Err("Process not found.")
             /\ UNCHANGED <<processes, main_messages, base_status, actions,
                            exit_callback, tasks, poisoned>>]_vars

\* C6's case: the error has been returned while Foo is registered and is
\* printing, and no request is installed.
C6_Witness ==
    \E t \in Callers :
        /\ SearchReturned(t, Err("Process not found."))
        /\ processes # <<>>
        /\ processes[1].out_messages # <<>>
        /\ \A p \in 1..Len(processes) : processes[p].search_message = None

----------------------------------------------------------------------------
\* Properties of termination.

\* C7 as claimed: in every interleaving of the termination paths the callback
\* is invoked exactly once before the process exits when one is registered,
\* and nothing is invoked when none is.
C7_Original ==
    /\ Len(sys.invoked) <= 1
    /\ (sys.exited /\ sys.armed) => Len(sys.invoked) = 1
    /\ sys.registered = <<>> => sys.invoked = <<>>

\* C8: the slot holds the closure registered last, and every invocation is of
\* the closure registered last before it, never of an earlier one.
C8_LastWins ==
    [][/\ exit_callback' = IF sys'.registered = <<>> THEN None
                           ELSE Some(sys'.registered[Len(sys'.registered)])
       /\ sys'.invoked # sys.invoked =>
             /\ sys.registered # <<>>
             /\ sys'.invoked = Append(sys.invoked, sys.registered[Len(sys.registered)])]_vars

\* C8's case: cb1 then cb2 were registered and the program has exited having
\* invoked cb2 only.
C8_Witness ==
    /\ sys.registered = <<"cb1", "cb2">>
    /\ sys.invoked = <<"cb2">>
    /\ sys.exited

\* The paths that are past the restore of the terminal and have the
\* callback still to run, and those that have the exit still to do.
AtCallback ==
    {t \in Callers : callers[t].pc = "kill_callback"}
        \cup (IF input.pc = "close_callback" THEN {"input"} ELSE {})

AtExit ==
    {t \in Callers : callers[t].pc = "kill_exit"}
        \cup (IF input.pc = "close_exit" THEN {"input"} ELSE {})

\* The close binding is the last one applied.
ClosedLast ==
    /\ input.applied # <<>>
    /\ actions[input.applied[Len(input.applied)]].data.ty = "Close"

\* C23: a path is at its callback or at its exit only with the terminal
\* restored, the callback has run only with the terminal restored, the
\* program has exited only by a path that is past its callback, with code 0;
\* a callback runs only as the step of a path from its callback stage to its
\* exit stage, and that step runs the callback when one is present; and once
\* the close binding is applied it stays the last binding applied.
C23_FixedOrder ==
    /\ []( /\ (AtCallback \cup AtExit # {}) => sys.restored
           /\ sys.invoked # <<>> => sys.restored
           /\ sys.exited => (sys.restored /\ AtExit # {} /\ sys.code = Some(0))
           /\ ~sys.exited => sys.code = None
           /\ input.pc \in {"close_callback", "close_exit"} => ClosedLast )
    /\ [][/\ sys'.invoked # sys.invoked =>
                \E path \in AtCallback : path \in AtExit' /\ path \notin AtExit
          /\ \A path \in AtCallback :
                (path \in AtExit') =>
                    sys'.invoked = IF exit_callback = None THEN sys.invoked
                                   ELSE Append(sys.invoked, Unwrap(exit_callback))
          /\ \A path \in AtExit' \ AtExit : path \in AtCallback
          /\ (sys'.exited /\ ~sys.exited) => AtExit # {}
          /\ input.pc \in {"close_callback", "close_exit"} =>
                input'.applied = input.applied]_vars

\* C23's case: the close binding alone has ended the program, with the
\* terminal restored and the registered callback run once.
C23_Witness ==
    /\ sys.exited
    /\ sys.restored
    /\ sys.invoked = <<"cb1">>
    /\ input.pc = "close_exit"
    /\ \A t \in Callers : callers[t].pc = "idle"

----------------------------------------------------------------------------
\* Properties of the keyboard dispatch.

\* The elements of a sequence.
Range(seq) == {seq[i] : i \in 1..Len(seq)}

\* The scroll status a binding's cell holds after the step.
StatusAfter(cell) ==
    IF cell.cell = "main_scroll" THEN base_status'.main_scroll
    ELSE processes'[cell.p][cell.cell]

\* The effect of a binding, in the words of the specification, on the step
\* that applies it.
EffectDone(data) ==
    CASE data.ty = "Close" -> sys'.restored
      [] data.ty = "Focus" -> base_status'.focus = Some(data.index)
      [] data.ty = "RemoveFocus" -> base_status'.focus = None
      [] data.ty = "StopScrolling" -> StatusAfter(data.status).y = None
      [] data.ty = "ScrollUp" ->
            LET old == ReadStatus(data.scroll.status)
                new == StatusAfter(data.scroll.status)
            IN  IF old.y = None
                THEN new.y = Some(MessagesLen(data.scroll.messages))
                ELSE new.y = Some(IF old.y[1] = 0 THEN 0 ELSE old.y[1] - 1)
      [] data.ty = "ScrollDown" ->
            LET old == ReadStatus(data.scroll.status)
                new == StatusAfter(data.scroll.status)
            IN  IF old.y = None THEN new = old ELSE new.y = Some(old.y[1] + 1)
      [] data.ty = "ScrollLeft" ->
            LET old == ReadStatus(data.scroll.status)
            IN  StatusAfter(data.scroll.status).x = IF old.x = 0 THEN 0 ELSE old.x - 1
      [] data.ty = "ScrollRight" ->
            StatusAfter(data.scroll.status).x = ReadStatus(data.scroll.status).x + 1

\* The bindings of the table, as it was when the event was read, whose
\* pattern equals the event.
EventMatches ==
    {i \in 1..input.n_actions : actions[i].event = input.event}

\* The bindings applied for the last event read are bindings it matches, in
\* table order with none skipped, and all of them once the dispatch is over.
DispatchInOrder ==
    input.nread > 0 =>
        /\ Range(input.applied) \subseteq EventMatches
        /\ \A k \in 1..(Len(input.applied) - 1) : input.applied[k] < input.applied[k + 1]
        /\ \A i \in EventMatches :
              (\E k \in 1..Len(input.applied) : i < input.applied[k])
                  => i \in Range(input.applied)
        /\ input.pc # "apply" => Range(input.applied) = EventMatches

\* C9: for every event, apply_event applies the effect of every binding whose
\* pattern equals the event, in the order of the table (built-in bindings
\* first, then per-process ones in registration order), and of no other.
C9_AppliesEveryMatch ==
    [][/\ DispatchInOrder'
       /\ ( /\ input'.nread = input.nread
            /\ Len(input'.applied) = Len(input.applied) + 1 )
          => EffectDone(actions[input'.applied[Len(input'.applied)]].data)]_vars

\* C9's case: Left has been dispatched with Foo registered: the built-in pan
\* of the main log and then Foo's two scroll-up bindings were applied.
C9_Witness ==
    /\ input.pc = "read"
    /\ input.nread > 0
    /\ input.event = into_event_no_modifier("Left")
    /\ Len(input.applied) = 3
    /\ input.applied[1] = 4
    /\ processes[1].scroll_status_out.y = Some(Len(processes[1].out_messages))

----------------------------------------------------------------------------
\* Properties of the redraw thread.

\* C10: a tick whose snapshot is equal to the cached one draws nothing and
\* leaves the cache as it was.
C10_NoDrawWhenEqual ==
    [][( /\ draw.pc = "compare"
         /\ draw'.pc # "compare"
         /\ draw.read = draw.cache )
       => /\ draw'.draws = draw.draws
          /\ draw'.cache = draw.cache
          /\ draw'.last = "skip"]_vars

\* C10's case: after a frame that shows a process and its lines was drawn, a
\* tick has found the same snapshot and skipped the draw.
C10_Witness ==
    /\ draw.last = "skip"
    /\ draw.draws >= 1
    /\ draw.cache.processes # <<>>
    /\ draw.cache.processes[1].out_messages # <<>>
    /\ draw.cache.main_messages # <<>>

----------------------------------------------------------------------------
\* Properties of the buffers and of the statuses.

\* a is an initial part of b.
IsPrefix(a, b) == Len(a) <= Len(b) /\ SubSeq(b, 1, Len(a)) = a

\* C11: every step leaves the main log and the output and error buffer of
\* every process as a prefix of what they become, and the step by which
\* add_message returns has put exactly one line at the end of the main log
\* and returns Ok.
C11_AppendOnly ==
    [][/\ IsPrefix(main_messages, main_messages')
       /\ \A p \in 1..Len(processes) :
             /\ IsPrefix(processes[p].out_messages, processes'[p].out_messages)
             /\ IsPrefix(processes[p].err_messages, processes'[p].err_messages)
       /\ \A t \in Callers :
             ( /\ callers'[t] # callers[t]
               /\ callers'[t].pc = "idle"
               /\ callers'[t].op = "add_message" )
                 => /\ callers'[t].result = Ok("()")
                    /\ Len(main_messages') = Len(main_messages) + 1
                    /\ IsPrefix(main_messages, main_messages')]_vars

\* C11's case: the main log holds the line of add_message and the exit notice
\* of Bar, Bar's two buffers hold their lines, and a key has scrolled them.
C11_Witness ==
    /\ Len(main_messages) = 2
    /\ processes # <<>>
    /\ callers["main"].pc = "idle"
    /\ callers["main"].op = "add_message"
    /\ processes[1].out_messages = <<Hello>>
    /\ processes[1].err_messages = <<World>>
    /\ processes[1].scroll_status_out.y = Some(1)

\* The scroll statuses of the registry, by position.
ScrollStatuses(procs) ==
    [p \in 1..Len(procs) |-> <<procs[p].scroll_status_out, procs[p].scroll_status_err>>]

\* C12: a step that changes the focus, the scroll status of the main log or a
\* scroll status of a registered process is the input thread applying a
\* binding; the steps of add_process, add_message, block_search,
\* with_exit_callback and of the capture, exit and redraw threads change none.
C12_OnlyKeyboard ==
    [][( \/ base_status' # base_status
         \/ SubSeq(ScrollStatuses(processes'), 1, Len(processes)) # ScrollStatuses(processes) )
       => /\ input.pc = "apply"
          /\ input'.applied = Append(input.applied, Head(input.events))]_vars

\* C12's case: after keys set the focus and pinned the panes of Bar, the
\* redraw thread has drawn, with the main thread in block_search and the
\* lines and the exit notice of Bar captured.
C12_Witness ==
    /\ processes # <<>>
    /\ base_status.focus = Some(1)
    /\ processes[1].scroll_status_out.y = Some(1)
    /\ processes[1].scroll_status_err.y = Some(1)
    /\ draw.draws >= 1
    /\ callers["main"].pc = "bs_poll"
    /\ sys.registered # <<>>
    /\ Len(main_messages) = 2

----------------------------------------------------------------------------
\* Properties of thread_exit.

\* The exit notices of the main log that name a process.
NoticeCount(name) ==
    Cardinality({i \in 1..Len(main_messages) : main_messages[i] = ExitNotice(name)})

\* The processes of that name whose thread_exit has pushed its notice.
DoneCount(name) ==
    Cardinality({p \in 1..Len(processes) :
                    processes[p].name = name /\ tasks[p].exit = "done"})

\* The registry keeps its processes, with their names and their lines.
RegistryKept ==
    /\ Len(processes) <= Len(processes')
    /\ \A p \in 1..Len(processes) :
          /\ processes'[p].name = processes[p].name
          /\ IsPrefix(processes[p].out_messages, processes'[p].out_messages)
          /\ IsPrefix(processes[p].err_messages, processes'[p].err_messages)

\* C13 as claimed: every process of the registry whose child has exited
\* eventually has its exit notice in the main log, also one that a failed
\* add_process call left in the registry.
C13_Original ==
    \A p \in 1..MaxFewProcs :
        (p <= Len(processes) /\ children[p].exited)
            ~> (p <= Len(processes) /\ NoticeCount(processes[p].name) >= 1)

\* C13 as amended: for a process whose add_process call got its pipes, once
\* the child has exited thread_exit eventually pushes the notice; the main log
\* never holds more notices of a name than processes of that name whose
\* thread_exit is done; and the registry keeps every process and its lines.
C13_ExitNotice ==
    /\ [](\A name \in {"Foo", "Bad"} : NoticeCount(name) = DoneCount(name))
    /\ [][RegistryKept]_vars
    /\ \A p \in 1..MaxFewProcs :
          (p <= Len(processes) /\ children[p].exited /\ tasks[p].exit = "wait")
              ~> ( /\ p <= Len(processes)
                   /\ tasks[p].exit = "done"
                   /\ NoticeCount(processes[p].name) >= 1 )

\* C13's case: Foo has exited, its notice is in the main log once and its
\* captured line is still in its buffer.
C13_Witness ==
    \E p \in 1..Len(processes) :
        /\ processes[p].name = "Foo"
        /\ children[p].exited
        /\ tasks[p].exit = "done"
        /\ NoticeCount("Foo") = 1
        /\ processes[p].out_messages = <<Hello>>

----------------------------------------------------------------------------
\* Properties of the pipes.

\* A stream the setting shows has no pipe in the child.
Lacks(messages, child) ==
    \/ messages \in {"Output", "All"} /\ ~child.stdout
    \/ messages \in {"Error", "All"} /\ ~child.stderr

\* C14: the step by which add_process pushes a process returns the error and
\* starts no capture thread exactly when a stream its setting shows has no
\* pipe; otherwise, and always with MessageSettings::None, the call goes on
\* and starts the capture thread of each shown stream.
C14_MissingPipe ==
    [][\A t \in Callers :
          (callers'[t] # callers[t] /\ Len(processes') = Len(processes) + 1) =>
              LET p == Len(processes')
                  messages == processes'[p].settings.messages
                  lacks == Lacks(messages, children'[p])
              IN  /\ messages = "None" => ~lacks
                  /\ lacks => /\ callers'[t].pc = "idle"
                               /\ callers'[t].op = "add_process"
                               /\ ~callers'[t].result.ok
                               /\ tasks'[p].out.pc = "none"
                               /\ tasks'[p].err.pc = "none"
                  /\ ~lacks => /\ callers'[t].pc \in {"ap_scroll", "ap_focus"}
                                /\ tasks'[p].out.pc =
                                      (IF messages \in {"Output", "All"} THEN "read" ELSE "none")
                                /\ tasks'[p].err.pc =
                                      (IF messages \in {"Error", "All"} THEN "read" ELSE "none")]_vars

\* C14's case: a child with stdout and without stderr was registered with
\* both streams shown: the call has returned the error of stderr and no
\* capture thread runs, not even the one of stdout.
C14_Witness ==
    \E p \in 1..Len(processes), t \in Callers :
        /\ processes[p].settings.messages = "All"
        /\ children[p].stdout
        /\ ~children[p].stderr
        /\ tasks[p] = NoTasks
        /\ callers[t].pc = "idle"
        /\ callers[t].op = "add_process"
        /\ callers[t].result = Err(<<"Failed to get stderr on process: ", "Foo">>)

----------------------------------------------------------------------------
\* Properties of the names.

\* C15 as claimed: no two processes of the registry have the same name.
C15_Original ==
    \A i \in 1..Len(processes), j \in 1..Len(processes) :
        processes[i].name = processes[j].name => i = j

----------------------------------------------------------------------------
\* Properties of the error stream.

\* thread_error of p has yet to read the line.
AheadErr(p, line) ==
    /\ tasks[p].err.pc = "read"
    /\ \E i \in 1..Len(tasks[p].err.stderr) : tasks[p].err.stderr[i] = line

\* C16 as claimed: a request for "llo" pending on Bar, whose error stream is
\* shown, is resolved by the line hello that Bar prints on its error stream
\* after the request was installed, and block_search returns it.
C16_Original ==
    \A t \in Callers :
        ( /\ callers[t].pc = "bs_poll"
          /\ callers[t].submsg = Llo
          /\ AheadErr(callers[t].process, Hello) )
            ~> SearchReturned(t, Ok(Hello))

----------------------------------------------------------------------------
\* Properties of scrolling.

\* The step applies a binding of one of these types.
Applies(types) ==
    /\ input.pc = "apply"
    /\ Len(input'.applied) = Len(input.applied) + 1
    /\ actions[Head(input.events)].data.ty \in types

\* C17 as claimed: scroll-up sets an absent pin to the line count of the
\* buffer and decrements a pin, stopping at zero; scroll-down adds one to a
\* pin and leaves an absent pin absent; the horizontal offset stays.
C17_Original ==
    [][Applies({"ScrollUp", "ScrollDown"}) =>
          LET data == actions[Head(input.events)].data
              old == ReadStatus(data.scroll.status)
              new == StatusAfter(data.scroll.status)
          IN  /\ new.x = old.x
              /\ data.ty = "ScrollUp" =>
                    new.y = IF old.y = None
                            THEN Some(MessagesLen(data.scroll.messages))
                            ELSE Some(IF Unwrap(old.y) = 0 THEN 0 ELSE Unwrap(old.y) - 1)
              /\ data.ty = "ScrollDown" =>
                    new.y = IF old.y = None THEN None
                            ELSE Some(Unwrap(old.y) + 1)]_vars

\* C17 as amended: the same, with the line count as 16 bits hold it and the
\* increment stated for a pin below 65535.
C17_ScrollPin ==
    [][Applies({"ScrollUp", "ScrollDown"}) =>
          LET data == actions[Head(input.events)].data
              old == ReadStatus(data.scroll.status)
              new == StatusAfter(data.scroll.status)
          IN  /\ new.x = old.x
              /\ data.ty = "ScrollUp" =>
                    new.y = IF old.y = None
                            THEN Some(MessagesLen(data.scroll.messages) % U16)
                            ELSE Some(IF Unwrap(old.y) = 0 THEN 0 ELSE Unwrap(old.y) - 1)
              /\ data.ty = "ScrollDown" =>
                    /\ old.y = None => new.y = None
                    /\ (old.y # None /\ Unwrap(old.y) < U16 - 1)
                          => new.y = Some(Unwrap(old.y) + 1)
                    /\ new.y = None => old.y = None]_vars

\* C17's case: the main log of two lines, panned once, was pinned at 2 by Up
\* and moved to 1 by a second Up.
C17_Witness ==
    /\ Len(main_messages) = 2
    /\ input.pc = "read"
    /\ input.event = into_event_no_modifier("Up")
    /\ Len(input.applied) = 1
    /\ base_status.main_scroll = [x |-> 1, y |-> Some(1)]

\* The process at position p is registered with scrolling enabled and every
\* call of add_process has returned.
ScrollEnabled(p) ==
    /\ p \in 1..Len(processes)
    /\ processes[p].settings.scroll # Disable
    /\ \A t \in Callers : callers[t].pc = "idle"

\* The step reads the shift-modified variant of a scroll key of the process.
ReadsShifted(p) ==
    /\ input.pc = "read"
    /\ input'.nread = input.nread + 1
    /\ \E k \in 1..2 : input'.event = into_event(processes[p].settings.scroll[k], "SHIFT")

\* C18 as claimed: the shift-modified variant of the scroll-up key and of
\* the scroll-down key of a scroll-enabled process is dispatched to pan
\* bindings of that process, which change the horizontal offset of its
\* scroll statuses and not the vertical pin.
C18_Original ==
    [][\A p \in 1..MaxKeyProcs :
          (ScrollEnabled(p) /\ ReadsShifted(p)) =>
              /\ input'.events # <<>>
              /\ \A i \in Range(input'.events) :
                    /\ actions[i].data.ty \in {"ScrollLeft", "ScrollRight"}
                    /\ actions[i].data.scroll.status \in
                          { ProcCell("scroll_status_out", p),
                            ProcCell("scroll_status_err", p) }]_vars

\* The scroll statuses of the process at position p.
Statuses(procs, p) == <<procs[p].scroll_status_out, procs[p].scroll_status_err>>

\* The step applies a release binding of the process at position p.
Releasing(p) ==
    /\ p \in 1..Len(processes)
    /\ Applies({"StopScrolling"})
    /\ actions[Head(input.events)].data.status.p = p

\* C19: a release binding of a process is dispatched by shift and the
\* scroll-down key of that process only; it leaves a status of that process
\* without a pin, and changes nothing when the pin is already absent; when
\* the dispatch ends both statuses of the process are without a pin; no step
\* of it changes a horizontal offset, the focus state, the main log's scroll
\* status, a buffer, or a scroll status of a process bound to other keys.
C19_Release ==
    [][\A p \in 1..MaxKeyProcs :
          Releasing(p) =>
              LET data == actions[Head(input.events)].data
              IN  /\ input.event = into_event(processes[p].settings.scroll[2], "SHIFT")
                  /\ StatusAfter(data.status).y = None
                  /\ ReadStatus(data.status).y = None => processes' = processes
                  /\ input'.pc = "read" =>
                        \A k \in 1..2 : Statuses(processes', p)[k].y = None
                  /\ base_status' = base_status
                  /\ Len(processes') = Len(processes)
                  /\ \A q \in 1..Len(processes) :
                        /\ \A k \in 1..2 :
                              Statuses(processes', q)[k].x = Statuses(processes, q)[k].x
                        /\ processes'[q].out_messages = processes[q].out_messages
                        /\ processes'[q].err_messages = processes[q].err_messages
                        /\ processes[q].settings.scroll # processes[p].settings.scroll
                              => Statuses(processes', q) = Statuses(processes, q)]_vars

\* C19's case: Foo and Bar were pinned by their scroll-up keys, and the
\* release combination of Foo has released its output status, with the
\* release of its error status still to come and Bar still pinned.
C19_Witness ==
    /\ Len(processes) = 2
    /\ processes[1].name = "Foo"
    /\ processes[2].name = "Bar"
    /\ input.pc = "apply"
    /\ input.event = into_event("Right", "SHIFT")
    /\ processes[1].scroll_status_out.y = None
    /\ processes[1].scroll_status_err.y # None
    /\ processes[2].scroll_status_out.y # None

\* The indexes for which a focus binding has been registered.
FocusBound(acts) ==
    { acts[i].data.index : i \in { j \in 1..Len(acts) : acts[j].data.ty = "Focus" } }

\* The index a digit key names, when the event is one.
DigitOf(event) ==
    { k \in 0..9 : event = into_event_no_modifier(DigitChars[k + 1]) }

\* The step reads the event.
Reads(event) ==
    /\ input.pc = "read"
    /\ input'.nread = input.nread + 1
    /\ input'.event = event

\* C20: the focus state is absent, 0, or an index in 1..9 that has a focus
\* binding; a digit with no focus binding dispatches nothing, and the focus
\* state changes only when the binding of digit 0, of Escape or of a
\* registered digit is applied, to 0, to absent and to that digit's index.
C20_FocusState ==
    /\ [](\/ base_status.focus = None
          \/ /\ Unwrap(base_status.focus) \in FocusBound(actions)
             /\ Unwrap(base_status.focus) \in 0..9)
    /\ [][/\ \A k \in 0..9 :
              Reads(into_event_no_modifier(DigitChars[k + 1])) =>
                  IF k \in FocusBound(actions)
                  THEN /\ input'.pc = "apply"
                       /\ \A i \in Range(input'.events) :
                             actions[i].data = [ty |-> "Focus", index |-> k]
                  ELSE /\ input'.pc = "read"
                       /\ base_status' = base_status
          /\ Reads(into_event_no_modifier("Esc")) =>
                  /\ input'.pc = "apply"
                  /\ \A i \in Range(input'.events) :
                        actions[i].data = [ty |-> "RemoveFocus"]
          /\ Applies({"Focus"}) =>
                  /\ base_status'.focus = Some(actions[Head(input.events)].data.index)
                  /\ DigitOf(input.event) = {actions[Head(input.events)].data.index}
          /\ Applies({"RemoveFocus"}) =>
                  /\ base_status'.focus = None
                  /\ input.event = into_event_no_modifier("Esc")
          /\ base_status'.focus # base_status.focus =>
                  Applies({"Focus", "RemoveFocus"})]_vars

\* C20's case: digit 9 was pressed with nine streams registered and the
\* ninth stream has the focus.
C20_Witness ==
    /\ PreCount(processes) = 9
    /\ input.pc = "read"
    /\ input.event = into_event_no_modifier("9")
    /\ base_status.focus = Some(9)

----------------------------------------------------------------------------
\* Properties of the frame.

\* The visible streams of a registry in registration order, the output of
\* a process before its errors: the stream at position k is the k-th one.
RECURSIVE StreamList(_, _)
StreamList(procs, n) ==
    IF n = 0 THEN <<>>
    ELSE StreamList(procs, n - 1) \o
         ( CASE procs[n].settings.messages = "Output" -> <<[process |-> n, ty |-> "Out"]>>
             [] procs[n].settings.messages = "Error" -> <<[process |-> n, ty |-> "Err"]>>
             [] procs[n].settings.messages = "All" ->
                    <<[process |-> n, ty |-> "Out"], [process |-> n, ty |-> "Err"]>>
             [] procs[n].settings.messages = "None" -> <<>> )

\* The positions of the streams of process n among the visible streams.
IndexesOf(procs, n) ==
    LET streams == StreamList(procs, Len(procs))
    IN  { k \in 1..Len(streams) : streams[k].process = n }

\* The pane shows the stream: its type, and the name, the buffer and the
\* scroll status of its process.
Shows(pane, procs, stream) ==
    LET process == procs[stream.process]
    IN  /\ pane.ty = stream.ty
        /\ pane.name = process.name
        /\ pane.messages = IF stream.ty = "Out" THEN process.out_messages
                                                ELSE process.err_messages
        /\ pane.scroll = IF stream.ty = "Out" THEN process.scroll_status_out
                                              ELSE process.scroll_status_err

\* The step draws a frame.
Draws == draw'.draws = draw.draws + 1

\* C21: add_process gives the streams of the new process their positions
\* among the visible streams in registration order; a frame drawn with focus
\* 0 is the main log alone; a frame drawn with a focus k >= 1 that has a
\* focus binding is the k-th visible stream alone, full-screen; a frame
\* drawn in overview mode has, after the main log, one pane per visible
\* stream in order, the k-th with k in its hint, in the chunk of its process.
C21_FocusResolved ==
    [][/\ \A t \in Callers :
             (callers[t].pc = "idle" /\ callers'[t].pc \in {"ap_scroll", "ap_focus"}) =>
                 /\ Range(callers'[t].focus_indexes) = IndexesOf(processes', Len(processes'))
                 /\ \A j \in 1..(Len(callers'[t].focus_indexes) - 1) :
                       callers'[t].focus_indexes[j] < callers'[t].focus_indexes[j + 1]
       /\ Draws =>
             LET read == draw.read
                 focus == read.main_scroll.focus
                 streams == StreamList(read.processes, Len(read.processes))
                 frame == draw'.frame
             IN  /\ focus = Some(0) =>
                       /\ Len(frame) = 1
                       /\ frame[1].ty = "Main"
                       /\ frame[1].chunk = FrameArea
                       /\ frame[1].messages = read.main_messages
                 /\ (focus # None /\ Unwrap(focus) \in FocusBound(actions) \ {0}) =>
                       /\ Unwrap(focus) <= Len(streams)
                       /\ Len(frame) = 1
                       /\ frame[1].chunk = FrameArea
                       /\ frame[1].focus = BlockFocus_Exit
                       /\ Shows(frame[1], read.processes, streams[Unwrap(focus)])
                 /\ focus = None =>
                       /\ Len(frame) = 1 + Len(streams)
                       /\ frame[1].ty = "Main"
                       /\ frame[1].focus = BlockFocus_Enter(0)
                       /\ \A k \in 1..Len(streams) :
                             /\ frame[k + 1].focus = BlockFocus_Enter(k)
                             /\ Shows(frame[k + 1], read.processes, streams[k])
                             /\ SubSeq(frame[k + 1].chunk, 1, 2)
                                   = <<1, streams[k].process - 1>>]_vars

\* C21's case: Qux with no stream and Bar with both streams are registered,
\* digit 2 was pressed, and the frame on the screen is the error stream of
\* Bar, full-screen.
C21_Witness ==
    /\ Len(processes) = 2
    /\ processes[1].settings.messages = "None"
    /\ processes[2].settings.messages = "All"
    /\ draw.cache.main_scroll.focus = Some(2)
    /\ Len(draw.frame) = 1
    /\ draw.frame[1].ty = "Err"
    /\ draw.frame[1].name = "Bar"

\* The snapshot DrawCache::detach takes of a state nothing is changing.
Detached ==
    [ main_messages |-> main_messages,
      main_scroll   |-> base_status,
      processes     |-> [p \in 1..Len(processes) |->
                            [processes[p] EXCEPT !.search_message = "()"]] ]

\* C22: a tick whose snapshot differs from the cached one draws the frame of
\* that snapshot and stores the snapshot in the cache; and when the shared
\* state stops changing, from some tick on the cache is the snapshot of that
\* state and nothing more is drawn.
C22_DrawsOnChange ==
    /\ [][( /\ draw.pc = "compare"
            /\ draw'.pc # "compare"
            /\ draw.read # draw.cache )
          => /\ draw'.draws = draw.draws + 1
             /\ draw'.cache = draw.read
             /\ draw'.frame = Frame(draw.read)
             /\ draw'.last = "draw"]_vars
    /\ (<>[][Detached' = Detached]_vars)
          => /\ <>[](draw.cache = Detached)
             /\ <>[][draw'.draws = draw.draws]_vars

\* C22's case: Foo was registered and drawn, its line hello was captured and
\* drawn, and the tick after that found nothing new.
C22_Witness ==
    /\ processes # <<>>
    /\ processes[1].out_messages = <<Hello>>
    /\ draw.draws = 2
    /\ draw.last = "skip"
    /\ draw.cache = Detached

----------------------------------------------------------------------------
\* Properties of two waiters on one process.

\* The request of the second thread has overwritten the one of the main
\* thread.
Overwritten ==
    \/ callers["worker"].pc \in {"bs_poll", "panicked"}
    \/ /\ callers["worker"].pc = "idle"
       /\ callers["worker"].op = "block_search"
       /\ callers["worker"].result.ok

\* Thread t has returned a line from block_search.
GotLine(t) ==
    /\ callers[t].pc = "idle"
    /\ callers[t].op = "block_search"
    /\ callers[t].result.ok

\* C24 as claimed, the part of it that no fairness is needed for: after the
\* overwrite the first waiter returns no line for its own substring, and the
\* second waiter is not denied its match: it does not abort and its line is
\* not returned to the first waiter.
C24_Original ==
    Overwritten =>
        /\ GotLine("main") => ~Contains(callers["main"].result.v, Llo)
        /\ callers["worker"].pc # "panicked"
        /\ ~GotLine("main")

\* C24 as amended: the install of the second request replaces the
\* unresolved first one and leaves the first waiter as it is; from then on
\* the first waiter returns no line for its own substring, every line
\* returned is a match of the second substring and at most one waiter
\* returns one; and when the match is still to come, one of the two waiters
\* returns it and the other one aborts.
C24_Overwrite ==
    /\ [][(Unresolved("main") /\ callers["worker"].pc = "bs_install"
             /\ callers'["worker"].pc = "bs_poll")
          => /\ processes'[1].search_message = Some(SearchMessage_new(Wor))
             /\ callers'["main"] = callers["main"]]_vars
    /\ [](Overwritten =>
            /\ \A t \in Callers :
                  GotLine(t) => /\ Contains(callers[t].result.v, Wor)
                                /\ ~Contains(callers[t].result.v, Llo)
            /\ ~(GotLine("main") /\ GotLine("worker")))
    /\ (callers["worker"].pc = "bs_poll" /\ callers["main"].pc = "bs_poll"
           /\ Ahead(1, World))
          ~> \/ SearchReturned("main", Ok(World)) /\ callers["worker"].pc = "panicked"
             \/ SearchReturned("worker", Ok(World)) /\ callers["main"].pc = "panicked"

\* C24's case: the second request overwrote the first, the second waiter
\* returned world, and the first waiter found the slot empty and aborted.
C24_Witness ==
    /\ SearchReturned("worker", Ok(World))
    /\ callers["main"].pc = "panicked"

----------------------------------------------------------------------------
\* Properties of the capture and exit threads.

\* The lines the child of a process wrote to its pipes.
Written(name) == CHOOSE inp \in CaptureInputs : inp.name = name

\* The lines as the capture thread of process p stores them.
Stored(p, lines) == [i \in 1..Len(lines) |-> Captured(p, lines[i])]

\* The buffers of the program other than one buffer of process p.
OtherBuffers(procs, main, p, field) ==
    << main,
       [q \in 1..Len(procs) |->
           << IF q = p /\ field = "out_messages" THEN <<>> ELSE procs[q].out_messages,
              IF q = p /\ field = "err_messages" THEN <<>> ELSE procs[q].err_messages >>] >>

\* C25: the output thread of a process takes a line from its pipe exactly
\* when it appends that line, as stored, to the output buffer of its
\* process, and the error thread likewise with the error buffer; the exit
\* thread of a process appends its notice to the main log; each of these
\* steps leaves every other buffer as it is; and at every moment a buffer
\* followed by the lines still in its pipe is what the child wrote, in order.
C25_OwnBuffer ==
    /\ [][\A p \in 1..Len(processes) :
             /\ (p <= Len(tasks) /\ tasks[p].out.pc = "read" /\ tasks'[p].out.pc = "search")
                   <=> processes'[p].out_messages # processes[p].out_messages
             /\ processes'[p].out_messages # processes[p].out_messages =>
                   /\ processes'[p].out_messages
                         = Append(processes[p].out_messages,
                                  Captured(p, Head(tasks[p].out.stdout)))
                   /\ tasks'[p].out.stdout = Tail(tasks[p].out.stdout)
                   /\ OtherBuffers(processes', main_messages', p, "out_messages")
                         = OtherBuffers(processes, main_messages, p, "out_messages")
             /\ (p <= Len(tasks) /\ tasks[p].err.pc = "read"
                    /\ tasks'[p].err.stderr # tasks[p].err.stderr)
                   <=> processes'[p].err_messages # processes[p].err_messages
             /\ processes'[p].err_messages # processes[p].err_messages =>
                   /\ processes'[p].err_messages
                         = Append(processes[p].err_messages,
                                  Captured(p, Head(tasks[p].err.stderr)))
                   /\ tasks'[p].err.stderr = Tail(tasks[p].err.stderr)
                   /\ OtherBuffers(processes', main_messages', p, "err_messages")
                         = OtherBuffers(processes, main_messages, p, "err_messages")
             /\ (p <= Len(tasks) /\ tasks[p].exit = "wait" /\ tasks'[p].exit = "done") =>
                   /\ main_messages' = Append(main_messages, ExitNotice(processes[p].name))
                   /\ processes' = processes]_vars
    /\ [][main_messages' # main_messages =>
             \E p \in 1..Len(tasks) : tasks[p].exit = "wait" /\ tasks'[p].exit = "done"]_vars
    /\ [](\A p \in 1..Len(processes) :
             LET wrote == Written(processes[p].name)
                 m == processes[p].settings.messages
             IN  /\ IF m \in {"Output", "All"}
                    THEN processes[p].out_messages \o Stored(p, tasks[p].out.stdout)
                           = Stored(p, Unwrap(wrote.stdout))
                    ELSE processes[p].out_messages = <<>>
                 /\ IF m \in {"Error", "All"}
                    THEN processes[p].err_messages \o Stored(p, tasks[p].err.stderr)
                           = Stored(p, Unwrap(wrote.stderr))
                    ELSE processes[p].err_messages = <<>>)

\* C25's case: Foo and Bar have printed everything and exited; the buffers
\* hold their lines, Foo's first one without its colour, and the main log
\* holds the two notices.
C25_Witness ==
    /\ Len(processes) = 2
    /\ processes[1].name = "Foo"
    /\ processes[2].name = "Bar"
    /\ processes[1].out_messages = <<Hello, World>>
    /\ processes[1].err_messages = <<>>
    /\ processes[2].out_messages = <<FooLine>>
    /\ processes[2].err_messages = <<Coloured, BarLine>>
    /\ Len(main_messages) = 2

----------------------------------------------------------------------------
\* Properties of failed registrations.

\* The step returns an error from add_process in thread t.
Fails(t) ==
    /\ callers[t].pc # "idle"
    /\ callers'[t].pc = "idle"
    /\ callers'[t].op = "add_process"
    /\ ~callers'[t].result.ok

\* The table holds the bindings.
Bound(acts, bindings) == Range(bindings) \subseteq Range(acts)

PollsSerialized(t) ==
    /\ callers[t].pc = "bs_poll"
    /\ processes[callers[t].process].name = "Bar"

\* C27: where the calls are serialized per process the slot is occupied at
\* every poll and the lock is whole, the call that returns leaves the slot
\* empty and returns a line of its own substring, and no poll aborts; a poll
\* aborts only on a process with concurrent calls, when the line was
\* consumed by the other caller.
C27_SlotAtPoll ==
    /\ [](\A t \in Callers :
             PollsSerialized(t) =>
                 /\ IsSome(processes[callers[t].process].search_message)
                 /\ callers[t].process \notin poisoned)
    /\ [][\A t \in Callers :
             /\ (PollsSerialized(t) /\ callers'[t].pc # "bs_poll") =>
                   /\ GotLine(t)'
                   /\ Contains(callers'[t].result.v, callers[t].submsg)
                   /\ processes'[callers[t].process].search_message = None
             /\ (callers[t].pc = "bs_poll" /\ callers'[t].pc = "panicked") =>
                   /\ processes[callers[t].process].name = "Foo"
                   /\ processes[callers[t].process].search_message = None
                   /\ \E u \in Callers \ {t} : GotLine(u)]_vars

\* C27's case: both threads called block_search on Foo; the main thread
\* returned world, the line of the request for "wor" of the second thread,
\* and the second thread found the slot empty and aborted.
C27_Witness ==
    /\ SearchReturned("main", Ok(World))
    /\ callers["worker"].pc = "panicked"
    /\ 1 \in poisoned \/ 2 \in poisoned

----------------------------------------------------------------------------
\* Properties of the main log's pin.

\* C28: no binding of the table releases the main log's scroll status, and
\* no step takes that status from pinned to unpinned.
C28_MainPinStays ==
    /\ [](\A i \in 1..Len(actions) :
             actions[i].data.ty = "StopScrolling" =>
                 actions[i].data.status # MainScrollCell)
    /\ [][base_status.main_scroll.y # None
             => base_status'.main_scroll.y # None]_vars

\* C28's case: Up pinned the main log and Foo, whose keys are the same, and
\* shift and Down has released the two statuses of Foo through its four
\* bindings, with the main log still pinned.
C28_Witness ==
    /\ processes # <<>>
    /\ input.pc = "read"
    /\ input.event = into_event("Down", "SHIFT")
    /\ Len(input.applied) = 4
    /\ processes[1].scroll_status_out.y = None
    /\ processes[1].scroll_status_err.y = None
    /\ base_status.main_scroll.y # None

----------------------------------------------------------------------------
\* Properties of the locks.

\* The threads inside a handler.
Busy == {t \in LockThreads : sys.todo[t] # <<>>}

\* Every thread inside a handler is blocked in read() or write() on a lock it
\* cannot get: the holders and the queued writers in its way are blocked
\* threads themselves, so none of them ever moves again.
Deadlocked ==
    /\ Busy # {}
    /\ \A t \in Busy :
          /\ LockHead(t).op = "acquire"
          /\ t \in sys.waiting
          /\ ~Granted(t)

\* C29: the statement of the claim, that no reachable state is a deadlock
\* among the capture, exit, input, redraw and calling threads.
C29_Original == ~Deadlocked

----------------------------------------------------------------------------
\* Properties of the scroll counters.

\* The step ends thread_input inside an effect.
Panics == input.pc = "apply" /\ input'.pc = "panicked"

\* C30: the decrements of scroll-up and pan-left stop at 0; the increments
\* of scroll-down on a pin and of pan-right add one below 65535 and at 65535
\* overflow, leaving 0 or ending the thread, never a status that stays at
\* 65535 with the thread going on; scroll-up without a pin stores the line
\* count modulo 65536, which is the line count exactly when that is below
\* 65536.
C30_Counters ==
    [][/\ Applies({"ScrollUp", "ScrollDown", "ScrollLeft", "ScrollRight"}) =>
             LET data == actions[Head(input.events)].data
                 old == ReadStatus(data.scroll.status)
                 new == StatusAfter(data.scroll.status)
                 len == MessagesLen(data.scroll.messages)
             IN  /\ (data.ty = "ScrollUp" /\ old.y # None) =>
                       new.y = Some(IF Unwrap(old.y) = 0 THEN 0 ELSE Unwrap(old.y) - 1)
                 /\ data.ty = "ScrollLeft" =>
                       new.x = (IF old.x = 0 THEN 0 ELSE old.x - 1)
                 /\ (data.ty = "ScrollDown" /\ old.y # None) =>
                       new.y = Some(IF Unwrap(old.y) = U16 - 1 THEN 0 ELSE Unwrap(old.y) + 1)
                 /\ data.ty = "ScrollRight" =>
                       new.x = (IF old.x = U16 - 1 THEN 0 ELSE old.x + 1)
                 /\ (data.ty = "ScrollUp" /\ old.y = None) =>
                       /\ new.y = Some(len % U16)
                       /\ (new.y = Some(len)) = (len < U16)
                 /\ new.x \in 0..(U16 - 1)
                 /\ new.y # None => Unwrap(new.y) \in 0..(U16 - 1)
       /\ Panics =>
             LET data == actions[Head(input.events)].data
                 old == ReadStatus(data.scroll.status)
             IN  /\ \/ data.ty = "ScrollDown" /\ old.y = Some(U16 - 1)
                    \/ data.ty = "ScrollRight" /\ old.x = U16 - 1
                 /\ StatusAfter(data.scroll.status) = old]_vars

\* C30's case: Down on the main log pinned at 65535 has left the pin at 0,
\* and Right then took the offset from 65535 to 0.
C30_Witness ==
    /\ input.pc = "read"
    /\ input.nread = 2
    /\ input.event = into_event_no_modifier("Right")
    /\ Len(input.applied) = 1
    /\ base_status.main_scroll = [x |-> 0, y |-> Some(0)]
    /\ main_messages = Lines(2)

----------------------------------------------------------------------------
\* Properties of the snapshot.

\* What a snapshot holds of the main log and of every process is a prefix of
\* what is there now, its processes are the first ones of the registry, and
\* it holds the unit value where a process has its search request.
SnapshotPrefix(snap) ==
    /\ IsPrefix(snap.main_messages, main_messages)
    /\ Len(snap.processes) <= Len(processes)
    /\ \A i \in 1..Len(snap.processes) :
          /\ snap.processes[i].name = processes[i].name
          /\ snap.processes[i].settings = processes[i].settings
          /\ IsPrefix(snap.processes[i].out_messages, processes[i].out_messages)
          /\ IsPrefix(snap.processes[i].err_messages, processes[i].err_messages)
          /\ snap.processes[i].search_message = "()"

\* The step of thread_draw that reads a cell puts into the snapshot what the
\* cell holds at that step.
ReadsWhatIs ==
    /\ (draw.pc = "main_messages" /\ draw'.pc = "main_scroll")
          => draw'.read.main_messages = main_messages
    /\ (draw.pc = "main_scroll" /\ draw'.pc = "focus")
          => draw'.read.main_scroll.main_scroll = base_status.main_scroll
    /\ (draw.pc = "focus" /\ draw'.pc = "processes")
          => draw'.read.main_scroll.focus = base_status.focus
    /\ (draw.pc = "detach_processes" /\ draw' # draw)
          => LET i == draw.i
                 field == DetachFields[draw.field]
             IN  /\ draw'.read.processes[i][field] = processes[i][field]
                 /\ \A k \in 1..(draw.field - 1) :
                       draw'.read.processes[i][DetachFields[k]]
                           = draw.read.processes[i][DetachFields[k]]

\* The step changes the search request of a process.
SlotStep ==
    /\ Len(processes') = Len(processes)
    /\ \E p \in 1..Len(processes) :
          processes'[p].search_message # processes[p].search_message

\* C31: the snapshot being taken, the cached one and the frame on the screen
\* hold prefixes of the buffers and of the registry as they are at any later
\* time, and no search request; every cell is read as it is at the step that
\* reads it; a step that installs, resolves or clears a search request
\* leaves what a snapshot would hold as it was, and a frame is drawn only on
\* a snapshot that differs from the cached one.
C31_Snapshot ==
    /\ [](SnapshotPrefix(draw.read) /\ SnapshotPrefix(draw.cache))
    /\ [][/\ ReadsWhatIs
          /\ SlotStep => (Detached' = Detached /\ draw' = draw)
          /\ Draws => (draw.read # draw.cache /\ draw'.cache = draw.read)]_vars

\* C31's case: the snapshot is complete and is the state of no instant.  The
\* focus was read as none; then the key 0 focused the main log and the key
\* Left pinned the output of Foo, in that order; then the pin was read.
C31_Witness ==
    /\ draw.pc = "compare"
    /\ draw.read.main_scroll.focus = None
    /\ Len(draw.read.processes) = 1
    /\ draw.read.processes[1].scroll_status_out.y # None
    /\ base_status.focus = Some(0)
    /\ input.pc = "read"
    /\ input.nread = 2
    /\ input.event = into_event_no_modifier("Left")

====
